---------------------------- MODULE Spec2Model ----------------------------
(***************************************************************************)
(* Multi-tenant time tracking backend (FastAPI routes over a MongoDB       *)
(* document store): token resolution, organization-scoped resource         *)
(* access, the time-entry state machine, invitation acceptance,            *)
(* organization registration, password reset, membership changes,          *)
(* telemetry ingestion, task updates, tracked project hours and the        *)
(* organizations' member count.                                            *)
(*                                                                         *)
(* The document store is the only shared state.  Each collection is a      *)
(* function from the ids present to documents.  Handlers are modelled as   *)
(* whole-request actions in the sequential specifications and as one       *)
(* action per database call (the await points) in the concurrent ones.     *)
(***************************************************************************)
EXTENDS Integers, Sequences, FiniteSets, TLC

\* ------------------------------------------------------------------ bounds
MaxEntries == 2
MaxPauses == 2
MaxTime == 2
MaxDurEntries == 1
MaxDurPauses == 1
MaxSkew == 1
MaxTenantEntries == 1
MaxTenantTime == 1
MaxStarters == 2
MaxAccepters == 2
MaxInviteTime == 2
MaxRegistrars == 2
MaxForgetters == 2
MaxResetters == 2
MaxResetTime == 2
MaxInvitations == 2
MaxTelemetry == 2
MaxTasks == 1
MaxTaskTime == 1
MaxHoursEntries == 2
MaxHoursTime == 1
MaxPausePeriods == 2
MaxPauseTime == 2
MaxStoppers == 2
MaxStopRaceTime == 2
MaxFlowOrgs == 2
MaxFlowInvitations == 2

\* --------------------------------------------------------------- universe
None == "none"
Orgs == {"orgA", "orgB"}
UserIds == {"u1", "u2", "u3", "u4"}
ProjectIds == {"p1", "p2", "p3"}
TaskIds == {"t1", "t2", "t3"}
EntryIds == 1..(MaxEntries + 1)
Roles == {"admin", "manager", "user"}
NoTime == -1

VARIABLES
    users,        \* collection "users": id -> document
    orgs,         \* collection "organizations": id -> document
    projects,     \* collection "projects"
    tasks,        \* collection "tasks"
    entries,      \* collection "time_entries"
    invitations,  \* collection "invitations": token -> document
    now,          \* datetime.utcnow(), in whole seconds
    skew,         \* how many times the wall clock has stepped back
    procs,        \* in-flight requests of the concurrent specifications
    resp,         \* the last completed request and its response
    reset_tokens, \* collection "password_reset_tokens": token -> document
    telemetry,    \* the monitoring collections: a set of stored records
    policies      \* collection "organization_security_policies"

vars == <<users, orgs, projects, tasks, entries, invitations, now, skew, procs, resp,
          reset_tokens, telemetry, policies>>

Max(a, b) == IF a >= b THEN a ELSE b

\* ======================================================================
\* Credential & token layer, authentication middleware
\* ======================================================================

\* A bearer token, given by what verification yields for it: a bad
\* signature/expiry, the legacy payload (a bare user id string), or the
\* claims dictionary {sub, user_id, org_id} (any of them possibly absent).
Tokens ==
    [shape: {"invalid"}, user_id: {None}, org_id: {None}, sub: {None}]
    \cup [shape: {"legacy"}, user_id: UserIds, org_id: {None}, sub: {None}]
    \cup [shape: {"scoped"}, user_id: UserIds \cup {None},
          org_id: Orgs \cup {None}, sub: {None, "email"}]

\* verify_token: the payload of a token, or "invalid".
verify_token(tok) ==
    IF tok.shape = "invalid" THEN [shape |-> "invalid"]
    ELSE IF tok.shape = "legacy" THEN [shape |-> "legacy", user_id |-> tok.user_id]
    ELSE [shape |-> "scoped", user_id |-> tok.user_id, org_id |-> tok.org_id, sub |-> tok.sub]

Unauthorized(detail) == [status |-> 401, detail |-> detail, principal |-> None]
Principal(uid) == [status |-> 200, detail |-> "ok", principal |-> uid]

\* The (user_id, org_id) pair get_current_user extracts from the payload.
TokenUserId(payload) ==
    IF payload.shape = "legacy" THEN payload.user_id
    ELSE IF payload.user_id # None THEN payload.user_id ELSE payload.sub

TokenOrgId(payload) ==
    IF payload.shape = "legacy" THEN None ELSE payload.org_id

\* The organization check of get_current_user: applied only when the token
\* carries an organization claim.
OrgContextMismatch(org_id, user_data) ==
    org_id # None /\ user_data.organization_id # org_id

get_current_user(tok) ==
    LET payload == verify_token(tok) IN
    IF payload.shape = "invalid" THEN Unauthorized("Invalid authentication credentials")
    ELSE
    LET user_id == TokenUserId(payload)
        org_id == TokenOrgId(payload)
    IN  IF user_id = None THEN Unauthorized("Invalid token")
        ELSE IF user_id \notin DOMAIN users THEN Unauthorized("User not found")
        ELSE IF OrgContextMismatch(org_id, users[user_id])
             THEN Unauthorized("Invalid organization context")
        ELSE IF users[user_id].organization_id = None
             THEN Unauthorized("User account needs to be migrated")
        ELSE Principal(user_id)

\* get_optional_user looks the user up by the whole payload: only a legacy
\* payload (a string) can equal a stored id.
get_optional_user(tok) ==
    LET payload == verify_token(tok) IN
    IF payload.shape = "invalid" THEN [status |-> 200, detail |-> "anonymous", principal |-> None]
    ELSE IF payload.shape # "legacy" \/ payload.user_id \notin DOMAIN users
         THEN [status |-> 200, detail |-> "anonymous", principal |-> None]
    ELSE IF users[payload.user_id].organization_id = None
         THEN [status |-> 500, detail |-> "validation error", principal |-> None]
    ELSE Principal(payload.user_id)

refresh_token(tok) ==
    LET payload == verify_token(tok) IN
    IF payload.shape = "invalid" THEN Unauthorized("Invalid refresh token")
    ELSE IF payload.shape = "legacy"
         THEN Unauthorized("Token format outdated. Please log in again.")
    ELSE IF payload.user_id = None \/ payload.org_id = None
         THEN Unauthorized("Invalid token format")
    ELSE IF ~(payload.user_id \in DOMAIN users
              /\ users[payload.user_id].organization_id = payload.org_id)
         THEN Unauthorized("User not found or organization mismatch")
    ELSE [status |-> 200, detail |-> "access_token", principal |-> payload.user_id]

\* The role guards composed on the resolved principal.
require_admin_or_manager(uid) == users[uid].role \in {"admin", "manager"}

get_organization_admin(uid) ==
    users[uid].role = "admin" \/ users[uid].is_organization_owner

\* User(...): status defaults to UserStatus.OFFLINE.
UserDoc(org, role, owner) ==
    [organization_id |-> org, role |-> role, is_organization_owner |-> owner,
     status |-> "offline"]


\* ----------------------------------------------------------------------
\* Specification SpecAuth: token resolution against every stored-user shape
\* ----------------------------------------------------------------------
Empty == [x \in {} |-> None]

AuthUserIds == {"u1", "u2"}

\* Stored users as the middleware can meet them: any subset present, each in
\* an organization or (pre-retrofit data) without organization_id.
InitAuth ==
    /\ users \in UNION {[U -> {UserDoc(o, "user", FALSE) : o \in Orgs \cup {None}}]
                          : U \in SUBSET AuthUserIds}
    /\ orgs = Empty /\ projects = Empty /\ tasks = Empty
    /\ entries = Empty /\ invitations = Empty
    /\ now = 0 /\ skew = 0 /\ procs = Empty
    /\ resp = [op |-> "init"]
    /\ reset_tokens = Empty /\ telemetry = {} /\ policies = {}

AuthGetCurrentUser ==
    \E tok \in Tokens :
        /\ resp' = [op |-> "get_current_user", tok |-> tok, out |-> get_current_user(tok)]
        /\ UNCHANGED <<users, orgs, projects, tasks, entries, invitations, reset_tokens, telemetry, policies, now, skew, procs>>

AuthGetOptionalUser ==
    \E tok \in Tokens :
        /\ resp' = [op |-> "get_optional_user", tok |-> tok, out |-> get_optional_user(tok)]
        /\ UNCHANGED <<users, orgs, projects, tasks, entries, invitations, reset_tokens, telemetry, policies, now, skew, procs>>

AuthRefreshToken ==
    \E tok \in Tokens :
        /\ resp' = [op |-> "refresh_token", tok |-> tok, out |-> refresh_token(tok)]
        /\ UNCHANGED <<users, orgs, projects, tasks, entries, invitations, reset_tokens, telemetry, policies, now, skew, procs>>

NextAuth == AuthGetCurrentUser \/ AuthGetOptionalUser \/ AuthRefreshToken

SpecAuth == InitAuth /\ [][NextAuth]_vars

AuthOps == {"get_current_user", "get_optional_user", "refresh_token"}

\* C8: whenever get_current_user returns a principal, the stored user exists,
\* has a non-null organization_id, and that equals the token's organization
\* claim; a token whose organization claim is absent or differs, or whose
\* stored user has no organization_id, fails Unauthorized with no principal.
C8_PrincipalMatchesTokenOrg ==
    resp.op = "get_current_user" =>
        LET payload == verify_token(resp.tok)
            claim == IF payload.shape = "invalid" THEN None ELSE TokenOrgId(payload)
            p == resp.out.principal
        IN  /\ p # None =>
                /\ p \in DOMAIN users
                /\ users[p].organization_id # None
                /\ users[p].organization_id = claim
            /\ claim = None => (resp.out.status = 401 /\ p = None)

\* C9: a token whose verified claims have the legacy shape never resolves
\* to a principal: each of the three resolvers fails it with the
\* NeedsReauthentication outcome, whatever the stored user looks like.
\* The outcome is read in its weakest sense: a rejection that yields no
\* principal (Unauthorized for get_current_user and refresh_token, "no
\* principal" for get_optional_user), whatever the message text.
NeedsReauthentication(op, out) ==
    /\ out.principal = None
    /\ op # "get_optional_user" => out.status = 401

C9_LegacyNeedsReauthentication ==
    (resp.op \in AuthOps /\ resp.tok.shape = "legacy")
        => NeedsReauthentication(resp.op, resp.out)


\* ======================================================================
\* Time-entry state machine (routes/time_tracking.py)
\* ======================================================================

\* Project(..., created_by, organization_id): hours_tracked defaults to 0.
ProjectDoc(org, creator) ==
    [organization_id |-> org, created_by |-> creator, name |-> "n0", hours_tracked |-> 0]

\* TimeEntry(...) as start_time_tracking builds it: running, never paused.
NewEntry(uid, pid, org, t) ==
    [user_id |-> uid, project_id |-> pid, organization_id |-> org,
     start_time |-> t, end_time |-> NoTime, duration |-> NoTime,
     is_paused |-> FALSE, pause_periods |-> << >>, total_pause_duration |-> 0]

Running(e) == e.end_time = NoTime /\ ~e.is_paused
Paused(e) == e.end_time = NoTime /\ e.is_paused
Stopped(e) == e.end_time # NoTime

ActiveEntryQueryRunningOnly(uid) ==
    {id \in DOMAIN entries : entries[id].user_id = uid /\ entries[id].end_time = NoTime
                                /\ ~entries[id].is_paused}

\* {"user_id": current_user.id, "end_time": None}
ActiveEntryQuery(uid) ==
    {id \in DOMAIN entries : entries[id].user_id = uid /\ entries[id].end_time = NoTime}

OwnEntryQueryAnyUser(id, uid) == id \in DOMAIN entries

\* {"id": entry_id, "user_id": current_user.id}
OwnEntryQuery(id, uid) == id \in DOMAIN entries /\ entries[id].user_id = uid

EntryStoppedNever(entry_data) == FALSE

\* if entry_data.get("end_time"): the entry is already stopped.
EntryStopped(entry_data) == entry_data.end_time # NoTime

ProjectInAnyOrg(pid, org) == pid \in DOMAIN projects

\* {"id": project_id, "organization_id": current_user.organization_id}
ProjectInOrg(pid, org) == pid \in DOMAIN projects /\ projects[pid].organization_id = org

\* uuid4 ids are never reused; time entries are never deleted.
FreshEntryId == Cardinality(DOMAIN entries) + 1

RECURSIVE ClosedPauseTotal(_)
\* resume_time_tracking's loop: the sum over the closed pause periods.
ClosedPauseTotal(periods) ==
    IF periods = << >> THEN 0
    ELSE LET h == Head(periods) IN
         (IF h.resume_time # NoTime THEN h.resume_time - h.pause_time ELSE 0)
         + ClosedPauseTotal(Tail(periods))

StopPauseTotalStoredOnly(e, end_time) == e.total_pause_duration

StopDurationByWallClock(e, end_time) == Max(0, end_time - e.start_time)

\* stop_time_tracking's pause accounting: the stored total, plus the
\* in-flight pause when the entry is paused and its last period is open.
StopPauseTotal(e, end_time) ==
    IF e.is_paused /\ e.pause_periods # << >>
       /\ e.pause_periods[Len(e.pause_periods)].resume_time = NoTime
    THEN e.total_pause_duration
         + (end_time - e.pause_periods[Len(e.pause_periods)].pause_time)
    ELSE e.total_pause_duration

\* stop_time_tracking's duration: the raw duration clamped at zero, less
\* the pause total, clamped at zero again.
StopDuration(e, end_time) ==
    LET raw == end_time - e.start_time
        raw_duration == IF raw < 0 THEN 0 ELSE raw
    IN  Max(0, raw_duration - StopPauseTotal(e, end_time))

\* Response of a time-tracking request, with the time_entries collection
\* as the request found it.
TimeResp(op, uid, id, status) ==
    [op |-> op, principal |-> uid, org |-> users[uid].organization_id,
     entry_id |-> id, status |-> status, pre |-> entries]

\* The tokens login issues: the claims of a stored user.
IssuedTokens ==
    {[shape |-> "scoped", user_id |-> u, org_id |-> users[u].organization_id, sub |-> "email"]
        : u \in DOMAIN users}

TimeFrame == <<orgs, tasks, invitations, reset_tokens, telemetry, policies, procs>>

\* {"$set": {"status": "active"}} on {"id", "organization_id"}
SetUserActive(uid, org) ==
    IF uid \in DOMAIN users /\ users[uid].organization_id = org
    THEN [users EXCEPT ![uid].status = "active"]
    ELSE users

start_time_tracking(tok, pid) ==
    LET cu == get_current_user(tok) IN
    /\ cu.status = 200
    /\ LET uid == cu.principal
           org == users[uid].organization_id
       IN  IF ActiveEntryQuery(uid) # {}
           THEN /\ resp' = TimeResp("start", uid, 0, 400)
                /\ UNCHANGED <<entries, users>>
           ELSE IF ~ProjectInOrg(pid, org)
           THEN /\ resp' = TimeResp("start", uid, 0, 404)
                /\ UNCHANGED <<entries, users>>
           ELSE /\ entries' = [id \in DOMAIN entries \cup {FreshEntryId} |->
                                 IF id \in DOMAIN entries THEN entries[id]
                                 ELSE NewEntry(uid, pid, org, now)]
                /\ users' = SetUserActive(uid, org)
                /\ resp' = TimeResp("start", uid, FreshEntryId, 200)
    /\ UNCHANGED <<projects, now, skew>>
    /\ UNCHANGED TimeFrame

IncEveryProjectHours(pid, duration) ==
    [p \in DOMAIN projects |-> [projects[p] EXCEPT !.hours_tracked = @ + duration]]

\* {"$inc": {"hours_tracked": duration / 3600}} on {"id": project_id};
\* hours_tracked is kept in seconds (3600ths of an hour).
IncProjectHours(pid, duration) ==
    IF pid \in DOMAIN projects /\ duration > 0
    THEN [projects EXCEPT ![pid].hours_tracked = @ + duration]
    ELSE projects

\* The handler, with the fate of its update of the project: when the
\* update raises, the handler logs "Failed to update project hours" and
\* goes on to answer.
stop_time_tracking_with(tok, id, project_update_ok) ==
    LET cu == get_current_user(tok) IN
    /\ cu.status = 200
    /\ LET uid == cu.principal IN
       IF ~OwnEntryQuery(id, uid)
       THEN /\ resp' = TimeResp("stop", uid, id, 404)
            /\ UNCHANGED <<entries, projects>>
       ELSE IF EntryStopped(entries[id])
       THEN /\ resp' = TimeResp("stop", uid, id, 400)
            /\ UNCHANGED <<entries, projects>>
       ELSE LET duration == StopDuration(entries[id], now) IN
            /\ entries' = [entries EXCEPT ![id].end_time = now, ![id].duration = duration]
            /\ projects' = IF project_update_ok
                           THEN IncProjectHours(entries[id].project_id, duration)
                           ELSE projects
            /\ resp' = TimeResp("stop", uid, id, 200)
                          @@ [project_error |-> duration > 0 /\ ~project_update_ok]
    /\ UNCHANGED <<users, now, skew>>
    /\ UNCHANGED TimeFrame

\* The handler against a database that serves every call.
stop_time_tracking(tok, id) == stop_time_tracking_with(tok, id, TRUE)

pause_time_tracking(tok, id) ==
    LET cu == get_current_user(tok) IN
    /\ cu.status = 200
    /\ LET uid == cu.principal IN
       IF ~OwnEntryQuery(id, uid)
       THEN /\ resp' = TimeResp("pause", uid, id, 404)
            /\ UNCHANGED entries
       ELSE IF EntryStopped(entries[id])
       THEN /\ resp' = TimeResp("pause", uid, id, 400)
            /\ UNCHANGED entries
       ELSE IF entries[id].is_paused
       THEN /\ resp' = TimeResp("pause", uid, id, 400)
            /\ UNCHANGED entries
       ELSE /\ entries' = [entries EXCEPT
                   ![id].is_paused = TRUE,
                   ![id].pause_periods =
                       Append(@, [pause_time |-> now, resume_time |-> NoTime])]
            /\ resp' = TimeResp("pause", uid, id, 200)
    /\ UNCHANGED <<users, projects, now, skew>>
    /\ UNCHANGED TimeFrame

CloseLastPauseNever(periods, resume_time) == periods

\* The last pause period closed at resume_time, when it is open.
CloseLastPause(periods, resume_time) ==
    IF periods # << >> /\ periods[Len(periods)].resume_time = NoTime
    THEN [periods EXCEPT ![Len(periods)].resume_time = resume_time]
    ELSE periods

resume_time_tracking(tok, id) ==
    LET cu == get_current_user(tok) IN
    /\ cu.status = 200
    /\ LET uid == cu.principal IN
       IF ~OwnEntryQuery(id, uid)
       THEN /\ resp' = TimeResp("resume", uid, id, 404)
            /\ UNCHANGED entries
       ELSE IF EntryStopped(entries[id])
       THEN /\ resp' = TimeResp("resume", uid, id, 400)
            /\ UNCHANGED entries
       ELSE IF ~entries[id].is_paused
       THEN /\ resp' = TimeResp("resume", uid, id, 400)
            /\ UNCHANGED entries
       ELSE LET pause_periods == CloseLastPause(entries[id].pause_periods, now) IN
            /\ entries' = [entries EXCEPT
                   ![id].is_paused = FALSE,
                   ![id].pause_periods = pause_periods,
                   ![id].total_pause_duration = ClosedPauseTotal(pause_periods)]
            /\ resp' = TimeResp("resume", uid, id, 200)
    /\ UNCHANGED <<users, projects, now, skew>>
    /\ UNCHANGED TimeFrame

\* datetime.utcnow(): the wall clock advances, and may be stepped back.
\* Durations depend only on differences of clock readings, so the clock is
\* moved only while some entry is open.
Tracking == \E id \in DOMAIN entries : entries[id].end_time = NoTime

TickTo(max) ==
    /\ Tracking
    /\ now < max
    /\ now' = now + 1
    /\ UNCHANGED <<users, orgs, projects, tasks, entries, invitations, reset_tokens, telemetry, policies, skew, procs, resp>>

ClockStepBack ==
    /\ Tracking
    /\ now > 0 /\ skew < MaxSkew
    /\ now' = now - 1
    /\ skew' = skew + 1
    /\ UNCHANGED <<users, orgs, projects, tasks, entries, invitations, reset_tokens, telemetry, policies, procs, resp>>

InitTime ==
    /\ users = [u \in {"u1", "u3"} |->
                  IF u = "u1" THEN UserDoc("orgA", "user", FALSE)
                  ELSE UserDoc("orgB", "admin", TRUE)]
    /\ projects = [p \in {"p1", "p2"} |->
                     IF p = "p1" THEN ProjectDoc("orgA", "u1") ELSE ProjectDoc("orgB", "u3")]
    /\ orgs = Empty /\ tasks = Empty /\ entries = Empty /\ invitations = Empty
    /\ now = 0 /\ skew = 0 /\ procs = Empty
    /\ resp = [op |-> "init"]
    /\ reset_tokens = Empty /\ telemetry = {} /\ policies = {}

\* The model's cap on the pause periods of an entry.
PausesWithin(es, max) == \A i \in DOMAIN es : Len(es[i].pause_periods) <= max

StartAction ==
    \E tok \in IssuedTokens, pid \in {"p1", "p2"} :
        /\ start_time_tracking(tok, pid)
        /\ Cardinality(DOMAIN entries') <= MaxEntries
StopAction == \E tok \in IssuedTokens, id \in EntryIds : stop_time_tracking(tok, id)
PauseAction ==
    \E tok \in IssuedTokens, id \in EntryIds :
        /\ pause_time_tracking(tok, id)
        /\ PausesWithin(entries', MaxPauses)
ResumeAction == \E tok \in IssuedTokens, id \in EntryIds : resume_time_tracking(tok, id)

NextTime == StartAction \/ StopAction \/ PauseAction \/ ResumeAction

SpecTime == InitTime /\ [][NextTime]_vars

\* ----------------------------------------------------------------------
\* Specification SpecDuration: one user's entry under a clock that may be
\* stepped back (clock skew)
\* ----------------------------------------------------------------------
DurEntryIds == 1..MaxDurEntries

InitDuration ==
    /\ users = [u \in {"u1"} |-> UserDoc("orgA", "user", FALSE)]
    /\ projects = [p \in {"p1"} |-> ProjectDoc("orgA", "u1")]
    /\ orgs = Empty /\ tasks = Empty /\ entries = Empty /\ invitations = Empty
    /\ now = 0 /\ skew = 0 /\ procs = Empty
    /\ resp = [op |-> "init"]
    /\ reset_tokens = Empty /\ telemetry = {} /\ policies = {}

DurStart ==
    \E tok \in IssuedTokens :
        /\ start_time_tracking(tok, "p1")
        /\ Cardinality(DOMAIN entries') <= MaxDurEntries
DurStop == \E tok \in IssuedTokens, id \in DurEntryIds : stop_time_tracking(tok, id)
DurPause ==
    \E tok \in IssuedTokens, id \in DurEntryIds :
        /\ pause_time_tracking(tok, id)
        /\ PausesWithin(entries', MaxDurPauses)
DurResume == \E tok \in IssuedTokens, id \in DurEntryIds : resume_time_tracking(tok, id)
DurTick == TickTo(MaxTime)

NextDuration == DurStart \/ DurStop \/ DurPause \/ DurResume \/ DurTick \/ ClockStepBack

SpecDuration == InitDuration /\ [][NextDuration]_vars

\* ----------------------------------------------------------------------
\* Specification SpecStartRace: concurrent start requests, one action per
\* database call of start_time_tracking (the handler's await points)
\* ----------------------------------------------------------------------
Starters == 1..MaxStarters

IdleStarter == [pc |-> "idle", uid |-> None, org |-> None, pid |-> None, status |-> 0]

InitStartRace ==
    /\ users = [u \in {"u1", "u3"} |->
                  IF u = "u1" THEN UserDoc("orgA", "user", FALSE)
                  ELSE UserDoc("orgB", "admin", TRUE)]
    /\ projects = [p \in {"p1", "p2"} |->
                     IF p = "p1" THEN ProjectDoc("orgA", "u1") ELSE ProjectDoc("orgB", "u3")]
    /\ orgs = Empty /\ tasks = Empty /\ entries = Empty /\ invitations = Empty
    /\ now = 0 /\ skew = 0
    /\ procs = [p \in Starters |-> IdleStarter]
    /\ resp = [op |-> "init"]
    /\ reset_tokens = Empty /\ telemetry = {} /\ policies = {}

RaceFrame == <<orgs, projects, tasks, invitations, reset_tokens, telemetry, policies, now, skew, resp>>

\* Depends(get_current_user): the request enters the handler.
RaceBegin(p) ==
    /\ procs[p].pc = "idle"
    /\ \E tok \in IssuedTokens, pid \in {"p1", "p2"} :
          LET cu == get_current_user(tok) IN
          /\ cu.status = 200
          /\ procs' = [procs EXCEPT ![p] =
                 [pc |-> "active_query", uid |-> cu.principal,
                  org |-> users[cu.principal].organization_id, pid |-> pid, status |-> 0]]
    /\ UNCHANGED <<users, entries>>
    /\ UNCHANGED RaceFrame

\* await get_document("time_entries", {"user_id", "end_time": None})
RaceActiveQuery(p) ==
    /\ procs[p].pc = "active_query"
    /\ procs' = IF ActiveEntryQuery(procs[p].uid) # {}
                THEN [procs EXCEPT ![p].pc = "done", ![p].status = 400]
                ELSE [procs EXCEPT ![p].pc = "project_query"]
    /\ UNCHANGED <<users, entries>>
    /\ UNCHANGED RaceFrame

\* await get_document("projects", {"id", "organization_id"})
RaceProjectQuery(p) ==
    /\ procs[p].pc = "project_query"
    /\ procs' = IF ProjectInOrg(procs[p].pid, procs[p].org)
                THEN [procs EXCEPT ![p].pc = "insert"]
                ELSE [procs EXCEPT ![p].pc = "done", ![p].status = 404]
    /\ UNCHANGED <<users, entries>>
    /\ UNCHANGED RaceFrame

\* await create_document("time_entries", ...)
RaceInsert(p) ==
    /\ procs[p].pc = "insert"
    /\ entries' = [id \in DOMAIN entries \cup {FreshEntryId} |->
                     IF id \in DOMAIN entries THEN entries[id]
                     ELSE NewEntry(procs[p].uid, procs[p].pid, procs[p].org, now)]
    /\ procs' = [procs EXCEPT ![p].pc = "set_status"]
    /\ UNCHANGED users
    /\ UNCHANGED RaceFrame

\* await update_document("users", ...), then the response
RaceSetUserActive(p) ==
    /\ procs[p].pc = "set_status"
    /\ users' = SetUserActive(procs[p].uid, procs[p].org)
    /\ procs' = [procs EXCEPT ![p].pc = "done", ![p].status = 200]
    /\ UNCHANGED entries
    /\ UNCHANGED RaceFrame

NextStartRace ==
    \E p \in Starters :
        \/ RaceBegin(p)
        \/ RaceActiveQuery(p)
        \/ RaceProjectQuery(p)
        \/ RaceInsert(p)
        \/ RaceSetUserActive(p)

SpecStartRace == InitStartRace /\ [][NextStartRace]_vars

\* C3: in every reachable state each user has at most one time entry with
\* end_time = null, under every interleaving of the requests' database
\* calls.
C3_AtMostOneActiveEntry ==
    \A u \in DOMAIN users :
        Cardinality({id \in DOMAIN entries :
                        entries[id].user_id = u /\ entries[id].end_time = NoTime}) <= 1

\* ======================================================================
\* Organization-scoped access by id (routes/projects.py, routes/users.py)
\* ======================================================================

\* Task(..., project_id, organization_id)
TaskDoc(org, pid, assignee) ==
    [organization_id |-> org, project_id |-> pid, assignee_id |-> assignee,
     created_by |-> assignee, name |-> "n0", status |-> "todo", updated_at |-> 0]

\* TaskUpdate as sent: a field the request leaves unset is None.
TaskUpdate(name, status, assignee) ==
    [name |-> name, status |-> status, assignee_id |-> assignee]

\* {"id": user_id, "organization_id": current_user.organization_id}
UserInOrg(uid, org) == uid \in DOMAIN users /\ users[uid].organization_id = org

\* {"id": task_id, "organization_id": current_user.organization_id}
TaskInOrg(tid, org) == tid \in DOMAIN tasks /\ tasks[tid].organization_id = org

\* What the caller observes: the status code and the detail message.
Outcome(status, detail) == [status |-> status, detail |-> detail]

get_project_outcome(cu, pid) ==
    IF ~ProjectInOrg(pid, users[cu].organization_id)
    THEN Outcome(404, "Project not found")
    ELSE Outcome(200, "ok")

update_project_outcome(cu, pid) ==
    IF ~ProjectInOrg(pid, users[cu].organization_id)
    THEN Outcome(404, "Project not found")
    ELSE IF users[cu].role \notin {"admin", "manager"} /\ projects[pid].created_by # cu
    THEN Outcome(403, "Access denied")
    ELSE Outcome(200, "ok")

\* DatabaseOperations has no delete_documents: once the project is found
\* the cascade raises AttributeError and the handler answers 500.
delete_project_outcome(cu, pid) ==
    IF ~require_admin_or_manager(cu)
    THEN Outcome(403, "Admin or manager access required")
    ELSE IF ~ProjectInOrg(pid, users[cu].organization_id)
    THEN Outcome(404, "Project not found")
    ELSE Outcome(500, "Failed to delete project")

update_task_outcome(cu, tid, task_update) ==
    IF ~TaskInOrg(tid, users[cu].organization_id)
    THEN Outcome(404, "Task not found")
    ELSE IF tasks[tid].assignee_id # cu /\ users[cu].role \notin {"admin", "manager"}
    THEN Outcome(403, "Only task assignee or admin/manager can update this task")
    ELSE IF task_update.assignee_id # None
            /\ ~UserInOrg(task_update.assignee_id, users[cu].organization_id)
    THEN Outcome(400, "Assignee not found in your organization")
    ELSE Outcome(200, "ok")

allowed_updates_unfiltered(cu, tid, task_update) == task_update

\* An assignee who is not admin/manager keeps only the status of the
\* payload; the payload model has no organization_id.
allowed_updates(cu, tid, task_update) ==
    IF tasks[tid].assignee_id = cu /\ users[cu].role \notin {"admin", "manager"}
    THEN TaskUpdate(None, task_update.status, None)
    ELSE task_update

\* {"$set": update_data} with updated_at, when update_data is not empty.
SetTaskFields(tid, update_data) ==
    IF update_data = TaskUpdate(None, None, None) THEN tasks
    ELSE [tasks EXCEPT ![tid] =
            [f \in DOMAIN tasks[tid] |->
                IF f = "updated_at" THEN now
                ELSE IF f \in DOMAIN update_data /\ update_data[f] # None
                THEN update_data[f]
                ELSE tasks[tid][f]]]

get_user_outcome(cu, uid) ==
    IF uid # cu /\ users[cu].role \notin {"admin", "manager"}
    THEN Outcome(403, "Access denied")
    ELSE IF ~UserInOrg(uid, users[cu].organization_id)
    THEN Outcome(404, "User not found")
    ELSE Outcome(200, "ok")

update_user_outcome(cu, uid, role) ==
    IF ~require_admin_or_manager(cu)
    THEN Outcome(403, "Admin or manager access required")
    ELSE IF ~UserInOrg(uid, users[cu].organization_id)
    THEN Outcome(404, "User not found")
    ELSE IF users[uid].is_organization_owner /\ ~users[cu].is_organization_owner
    THEN Outcome(403, "Only organization owner can modify organization owner account")
    ELSE IF role = "admin" /\ ~users[cu].is_organization_owner
    THEN Outcome(403, "Only organization owner can assign admin roles")
    ELSE Outcome(200, "ok")

delete_user_unguarded(cu, uid) ==
    IF ~require_admin_or_manager(cu)
    THEN Outcome(403, "Admin or manager access required")
    ELSE IF ~UserInOrg(uid, users[cu].organization_id)
    THEN Outcome(404, "User not found")
    ELSE Outcome(500, "Failed to delete user")

\* delete_document returns a bool: after the delete, result.deleted_count
\* raises AttributeError and the handler answers 500.
delete_user_outcome(cu, uid) ==
    IF ~require_admin_or_manager(cu)
    THEN Outcome(403, "Admin or manager access required")
    ELSE IF uid = cu
    THEN Outcome(400, "Cannot delete yourself")
    ELSE IF ~UserInOrg(uid, users[cu].organization_id)
    THEN Outcome(404, "User not found")
    ELSE IF users[uid].is_organization_owner
    THEN Outcome(403, "Cannot delete organization owner. Transfer ownership first.")
    ELSE IF users[uid].role = "admin"
            /\ ~(users[cu].is_organization_owner \/ users[cu].role = "admin")
    THEN Outcome(403, "Only organization owner or admin can delete admin users")
    ELSE Outcome(500, "Failed to delete user")

\* The helper looks the target up by id alone, then compares organizations.
validate_same_organization_user_outcome(cu, uid) ==
    IF uid \notin DOMAIN users
    THEN Outcome(404, "User not found")
    ELSE IF users[uid].organization_id # users[cu].organization_id
    THEN Outcome(403, "Access denied: user belongs to different organization")
    ELSE Outcome(200, "ok")

\* Response of a by-id request: the outcome, the request's argument and the
\* organization_ids of the documents in the response body.
TenantResp(op, cu, id, arg, out, returned) ==
    [op |-> op, principal |-> cu, org |-> users[cu].organization_id, id |-> id,
     arg |-> arg, status |-> out.status, detail |-> out.detail, returned |-> returned]

get_project(tok, pid) ==
    LET cu == get_current_user(tok) IN
    /\ cu.status = 200
    /\ LET out == get_project_outcome(cu.principal, pid) IN
       resp' = TenantResp("get_project", cu.principal, pid, None, out,
                   IF out.status = 200 THEN {projects[pid].organization_id} ELSE {})
    /\ UNCHANGED <<users, orgs, projects, tasks, entries, invitations, reset_tokens, telemetry, policies, now, skew, procs>>

\* update_data = {"name": name}
update_project(tok, pid, name) ==
    LET cu == get_current_user(tok) IN
    /\ cu.status = 200
    /\ LET out == update_project_outcome(cu.principal, pid) IN
       /\ projects' = IF out.status = 200 THEN [projects EXCEPT ![pid].name = name]
                      ELSE projects
       /\ resp' = TenantResp("update_project", cu.principal, pid, name, out,
                      IF out.status = 200 THEN {projects[pid].organization_id} ELSE {})
    /\ UNCHANGED <<users, orgs, tasks, entries, invitations, reset_tokens, telemetry, policies, now, skew, procs>>

delete_project(tok, pid) ==
    LET cu == get_current_user(tok) IN
    /\ cu.status = 200
    /\ resp' = TenantResp("delete_project", cu.principal, pid, None,
                   delete_project_outcome(cu.principal, pid), {})
    /\ UNCHANGED <<users, orgs, projects, tasks, entries, invitations, reset_tokens, telemetry, policies, now, skew, procs>>

update_task(tok, tid, task_update) ==
    LET cu == get_current_user(tok) IN
    /\ cu.status = 200
    /\ LET out == update_task_outcome(cu.principal, tid, task_update) IN
       /\ tasks' = IF out.status = 200
                   THEN SetTaskFields(tid, allowed_updates(cu.principal, tid, task_update))
                   ELSE tasks
       /\ resp' = TenantResp("update_task", cu.principal, tid, task_update, out,
                      IF out.status = 200 THEN {tasks[tid].organization_id} ELSE {})
    /\ UNCHANGED <<users, orgs, projects, entries, invitations, reset_tokens, telemetry, policies, now, skew, procs>>

get_user(tok, uid) ==
    LET cu == get_current_user(tok) IN
    /\ cu.status = 200
    /\ LET out == get_user_outcome(cu.principal, uid) IN
       resp' = TenantResp("get_user", cu.principal, uid, None, out,
                   IF out.status = 200 THEN {users[uid].organization_id} ELSE {})
    /\ UNCHANGED <<users, orgs, projects, tasks, entries, invitations, reset_tokens, telemetry, policies, now, skew, procs>>

\* update_data = {"role": role}
update_user(tok, uid, role) ==
    LET cu == get_current_user(tok) IN
    /\ cu.status = 200
    /\ LET out == update_user_outcome(cu.principal, uid, role) IN
       /\ users' = IF out.status = 200 THEN [users EXCEPT ![uid].role = role]
                   ELSE users
       /\ resp' = TenantResp("update_user", cu.principal, uid, role, out,
                      IF out.status = 200 THEN {users[uid].organization_id} ELSE {})
    /\ UNCHANGED <<orgs, projects, tasks, entries, invitations, reset_tokens, telemetry, policies, now, skew, procs>>

\* The 500 comes after delete_document: the user is gone, and the
\* organization's current_users is never decremented.
delete_user(tok, uid) ==
    LET cu == get_current_user(tok) IN
    /\ cu.status = 200
    /\ LET out == delete_user_outcome(cu.principal, uid) IN
       /\ users' = IF out.status = 500
                   THEN [u \in DOMAIN users \ {uid} |-> users[u]]
                   ELSE users
       /\ resp' = TenantResp("delete_user", cu.principal, uid, None, out, {})
    /\ UNCHANGED <<orgs, projects, tasks, entries, invitations, reset_tokens, telemetry, policies, now, skew, procs>>

validate_same_organization_user(tok, uid) ==
    LET cu == get_current_user(tok) IN
    /\ cu.status = 200
    /\ LET out == validate_same_organization_user_outcome(cu.principal, uid) IN
       resp' = TenantResp("validate_same_organization_user", cu.principal, uid, None, out,
                   IF out.status = 200 THEN {users[cu.principal].organization_id} ELSE {})
    /\ UNCHANGED <<users, orgs, projects, tasks, entries, invitations, reset_tokens, telemetry, policies, now, skew, procs>>

\* ----------------------------------------------------------------------
\* Specification SpecTenant: two organizations, requests by id from either
\* ----------------------------------------------------------------------
InitTenant ==
    /\ users = [u \in {"u1", "u2", "u3"} |->
                  IF u = "u1" THEN UserDoc("orgA", "user", FALSE)
                  ELSE IF u = "u2" THEN UserDoc("orgA", "admin", TRUE)
                  ELSE UserDoc("orgB", "admin", TRUE)]
    /\ projects = [p \in {"p1"} |-> ProjectDoc("orgA", "u1")]
    /\ tasks = [t \in {"t1"} |-> TaskDoc("orgA", "p1", "u1")]
    /\ orgs = Empty /\ entries = Empty /\ invitations = Empty
    /\ now = 0 /\ skew = 0 /\ procs = Empty
    /\ resp = [op |-> "init"]
    /\ reset_tokens = Empty /\ telemetry = {} /\ policies = {}

\* The ids requests name: those of stored documents and one that names
\* nothing.
TenantProjectIds == {"p1", "p3"}
TenantTaskIds == {"t1", "t3"}
TenantUserIds == {"u1", "u2", "u3", "u4"}

GetProject == \E tok \in IssuedTokens, pid \in TenantProjectIds : get_project(tok, pid)
UpdateProject ==
    \E tok \in IssuedTokens, pid \in TenantProjectIds : update_project(tok, pid, "n1")
DeleteProject == \E tok \in IssuedTokens, pid \in TenantProjectIds : delete_project(tok, pid)
UpdateTask ==
    \E tok \in IssuedTokens, tid \in TenantTaskIds :
        update_task(tok, tid, TaskUpdate(None, "done", None))
GetUser == \E tok \in IssuedTokens, uid \in TenantUserIds : get_user(tok, uid)
UpdateUser ==
    \E tok \in IssuedTokens, uid \in TenantUserIds : update_user(tok, uid, "manager")
DeleteUser == \E tok \in IssuedTokens, uid \in TenantUserIds : delete_user(tok, uid)
ValidateSameOrganizationUser ==
    \E tok \in IssuedTokens, uid \in TenantUserIds :
        validate_same_organization_user(tok, uid)
TenantStart ==
    \E tok \in IssuedTokens, pid \in TenantProjectIds :
        /\ start_time_tracking(tok, pid)
        /\ Cardinality(DOMAIN entries') <= MaxTenantEntries
TenantStop ==
    \E tok \in IssuedTokens, id \in 1..MaxTenantEntries : stop_time_tracking(tok, id)
TenantTick == TickTo(MaxTenantTime)

NextTenant ==
    \/ GetProject \/ UpdateProject \/ DeleteProject \/ UpdateTask
    \/ GetUser \/ UpdateUser \/ DeleteUser \/ ValidateSameOrganizationUser
    \/ TenantStart \/ TenantStop \/ TenantTick

SpecTenant == InitTenant /\ [][NextTenant]_vars

\* The organization_ids of the documents a step created, changed or removed.
Touched(old, new) ==
    {old[id].organization_id :
        id \in {i \in DOMAIN old : i \notin DOMAIN new \/ new[i] # old[i]}}
    \cup {new[id].organization_id : id \in DOMAIN new \ DOMAIN old}

\* The organization_ids of the documents in a response body.
ReturnedOrgs(r, es) ==
    IF r.op \in {"start", "stop", "pause", "resume"}
    THEN IF r.status = 200 THEN {es[r.entry_id].organization_id} ELSE {}
    ELSE r.returned

ByIdOps ==
    {"get_project", "update_project", "delete_project", "update_task",
     "get_user", "update_user", "delete_user", "validate_same_organization_user"}

\* The collection an operation looks its id up in.
LookedUpIn(op) ==
    IF op \in {"get_project", "update_project", "delete_project"} THEN projects
    ELSE IF op = "update_task" THEN tasks
    ELSE users

\* An id no document of the collection has.
MissingId(op) ==
    IF op \in {"get_project", "update_project", "delete_project"} THEN "p3"
    ELSE IF op = "update_task" THEN "t3"
    ELSE "u4"

OutcomeOf(op, cu, id, arg) ==
    CASE op = "get_project" -> get_project_outcome(cu, id)
      [] op = "update_project" -> update_project_outcome(cu, id)
      [] op = "delete_project" -> delete_project_outcome(cu, id)
      [] op = "update_task" -> update_task_outcome(cu, id, arg)
      [] op = "get_user" -> get_user_outcome(cu, id)
      [] op = "update_user" -> update_user_outcome(cu, id, arg)
      [] op = "delete_user" -> delete_user_outcome(cu, id)
      [] op = "validate_same_organization_user" ->
             validate_same_organization_user_outcome(cu, id)

\* C2: non-disclosure of existence.  When the id of a by-id lookup names a
\* resource of another organization, the caller observes exactly the
\* outcome (status and message) observed for an id that names nothing.
C2_CrossTenantLooksMissing ==
    (/\ resp.op \in ByIdOps
     /\ resp.id \in DOMAIN LookedUpIn(resp.op)
     /\ LookedUpIn(resp.op)[resp.id].organization_id # resp.org)
        => /\ MissingId(resp.op) \notin DOMAIN LookedUpIn(resp.op)
           /\ Outcome(resp.status, resp.detail)
                = OutcomeOf(resp.op, resp.principal, MissingId(resp.op), resp.arg)

\* ======================================================================
\* Invitation acceptance (routes/auth.py accept_invitation)
\* ======================================================================

\* Organization(...): max_users defaults to 5.
OrgDoc(status, current_users) ==
    [status |-> status, current_users |-> current_users, max_users |-> 5]

\* Invitation(email, role, organization_id, expires_at): accepted = False.
InvitationDoc(email, role, org, expires_at) ==
    [email |-> email, role |-> role, organization_id |-> org,
     expires_at |-> expires_at, accepted |-> FALSE]

\* User(email, role, organization_id) as accept_invitation builds it.
InvitedUser(email, role, org) == UserDoc(org, role, FALSE) @@ [email |-> email]

\* {"email": email}
UsersByEmail(email) == {u \in DOMAIN users : users[u].email = email}

NoUniqueEmailIndex(email) == FALSE

\* users.create_index("email", unique=True): an insert of a taken email
\* raises DuplicateKeyError.
DuplicateEmail(email) == UsersByEmail(email) # {}

\* uuid4: an id no stored user has.
FreshUserId == CHOOSE u \in UserIds : u \notin DOMAIN users

Accepters == 1..MaxAccepters
InviteTokens == {"k1", "k0"}

IdleAccepter ==
    [pc |-> "idle", token |-> None, found |-> FALSE, inv |-> None, at |-> NoTime,
     status |-> 0, detail |-> None]

\* The request ends with this status and detail.
Answer(p, status, detail) ==
    [procs EXCEPT ![p].pc = "done", ![p].status = status, ![p].detail = detail]

\* timedelta(days=7), in the time unit of the invitation specification.
InviteTtl == 1

\* OrganizationStatus.ACTIVE is set outside these routes (registration
\* creates TRIAL): both kinds of organization are considered.
InitInvite ==
    /\ \E st \in {"trial", "active"} : orgs = [o \in {"orgA"} |-> OrgDoc(st, 1)]
    /\ users = [u \in {"u2"} |-> InvitedUser("e2", "admin", "orgA")]
    /\ invitations = [k \in {"k1"} |-> InvitationDoc("e1", "user", "orgA", InviteTtl)]
    /\ projects = Empty /\ tasks = Empty /\ entries = Empty
    /\ now = 0 /\ skew = 0
    /\ procs = [p \in Accepters |-> IdleAccepter]
    /\ resp = [op |-> "init"]
    /\ reset_tokens = Empty /\ telemetry = {} /\ policies = {}

AcceptFrame == <<projects, tasks, entries, now, skew, resp, reset_tokens, telemetry, policies>>

\* POST /accept-invite arrives.
AcceptBegin(p) ==
    /\ procs[p].pc = "idle"
    /\ \E k \in InviteTokens :
          procs' = [procs EXCEPT ![p].pc = "find", ![p].token = k]
    /\ UNCHANGED <<users, orgs, invitations>>
    /\ UNCHANGED AcceptFrame

\* await get_document("invitations", {"token"}), then the expiry and the
\* accepted checks on the document read.
AcceptFind(p) ==
    /\ procs[p].pc = "find"
    /\ LET k == procs[p].token IN
       procs' =
         IF k \notin DOMAIN invitations
         THEN Answer(p, 404, "Invalid invitation token")
         ELSE LET inv == invitations[k]
                  seen == [procs EXCEPT ![p].found = TRUE, ![p].inv = inv, ![p].at = now]
              IN  IF now > inv.expires_at
                  THEN [seen EXCEPT ![p].pc = "done", ![p].status = 400,
                                    ![p].detail = "Invitation has expired"]
                  ELSE IF inv.accepted
                  THEN [seen EXCEPT ![p].pc = "done", ![p].status = 400,
                                    ![p].detail = "Invitation has already been accepted"]
                  ELSE [seen EXCEPT ![p].pc = "check_user"]
    /\ UNCHANGED <<users, orgs, invitations>>
    /\ UNCHANGED AcceptFrame

\* await get_document("users", {"email": invitation.email})
AcceptCheckUser(p) ==
    /\ procs[p].pc = "check_user"
    /\ procs' = IF UsersByEmail(procs[p].inv.email) # {}
                THEN Answer(p, 400, "User with this email already exists in another organization")
                ELSE [procs EXCEPT ![p].pc = "check_org"]
    /\ UNCHANGED <<users, orgs, invitations>>
    /\ UNCHANGED AcceptFrame

\* await get_document("organizations", {"id": invitation.organization_id})
AcceptCheckOrg(p) ==
    /\ procs[p].pc = "check_org"
    /\ LET o == procs[p].inv.organization_id IN
       procs' = IF o \notin DOMAIN orgs \/ orgs[o].status # "active"
                THEN Answer(p, 400, "Organization is not available for new users")
                ELSE [procs EXCEPT ![p].pc = "insert_user"]
    /\ UNCHANGED <<users, orgs, invitations>>
    /\ UNCHANGED AcceptFrame

\* await create_document("users", ...)
AcceptInsertUser(p) ==
    /\ procs[p].pc = "insert_user"
    /\ LET inv == procs[p].inv IN
       IF DuplicateEmail(inv.email)
       THEN /\ procs' = Answer(p, 500, "Failed to accept invitation")
            /\ UNCHANGED users
       ELSE /\ users' = [u \in DOMAIN users \cup {FreshUserId} |->
                           IF u \in DOMAIN users THEN users[u]
                           ELSE InvitedUser(inv.email, inv.role, inv.organization_id)]
            /\ procs' = [procs EXCEPT ![p].pc = "inc_users"]
    /\ UNCHANGED <<orgs, invitations>>
    /\ UNCHANGED AcceptFrame

\* await update_document("organizations", {"$inc": {"current_users": 1}})
AcceptIncUsers(p) ==
    /\ procs[p].pc = "inc_users"
    /\ LET o == procs[p].inv.organization_id IN
       orgs' = IF o \in DOMAIN orgs
               THEN [orgs EXCEPT ![o].current_users = @ + 1]
               ELSE orgs
    /\ procs' = [procs EXCEPT ![p].pc = "mark_accepted"]
    /\ UNCHANGED <<users, invitations>>
    /\ UNCHANGED AcceptFrame

\* await update_document("invitations", {"$set": {"accepted": True}}),
\* then the tokens and the response
AcceptMark(p) ==
    /\ procs[p].pc = "mark_accepted"
    /\ LET k == procs[p].token IN
       invitations' = IF k \in DOMAIN invitations
                      THEN [invitations EXCEPT ![k].accepted = TRUE]
                      ELSE invitations
    /\ procs' = Answer(p, 200, "ok")
    /\ UNCHANGED <<users, orgs>>
    /\ UNCHANGED AcceptFrame

\* datetime.utcnow() advances.
InviteTick ==
    /\ now < MaxInviteTime
    /\ now' = now + 1
    /\ UNCHANGED <<users, orgs, projects, tasks, entries, invitations, reset_tokens, telemetry, policies, skew, procs, resp>>

NextInvite ==
    \/ \E p \in Accepters :
          \/ AcceptBegin(p) \/ AcceptFind(p) \/ AcceptCheckUser(p) \/ AcceptCheckOrg(p)
          \/ AcceptInsertUser(p) \/ AcceptIncUsers(p) \/ AcceptMark(p)
    \/ InviteTick

SpecInvite == InitInvite /\ [][NextInvite]_vars

\* A request that found the invitation already accepted.
FoundAccepted(p) ==
    procs[p].pc = "done" /\ procs[p].found /\ procs[p].inv.accepted

\* At most one user holds the invited email, and current_users went from 1
\* to at most 2.
AtMostOneUserCreated ==
    /\ \A k \in DOMAIN invitations :
          Cardinality(UsersByEmail(invitations[k].email)) <= 1
    /\ Cardinality({p \in Accepters : procs[p].pc \in {"inc_users", "mark_accepted"}
                                       \/ procs[p].status = 200}) <= 1
    /\ \A o \in DOMAIN orgs : orgs[o].current_users <= 2

\* C10 as stated: an accept of an already accepted token fails with
\* "already accepted"; at most one user is created and current_users is
\* incremented at most once, under every interleaving.
C10_SecondAcceptAlreadyAccepted ==
    /\ \A p \in Accepters :
          FoundAccepted(p) =>
              /\ procs[p].status = 400
              /\ procs[p].detail = "Invitation has already been accepted"
    /\ AtMostOneUserCreated

\* C10 amended: an accept of an already accepted token fails, with
\* "expired" when the invitation has expired by then and with "already
\* accepted" otherwise; at most one user is created and current_users is
\* incremented at most once, under every interleaving.
C10_AcceptedTokenIsNotAcceptedAgain ==
    /\ \A p \in Accepters :
          FoundAccepted(p) =>
              /\ procs[p].status = 400
              /\ procs[p].detail =
                    IF procs[p].at > procs[p].inv.expires_at
                    THEN "Invitation has expired"
                    ELSE "Invitation has already been accepted"
    /\ AtMostOneUserCreated

C10_Witness ==
    \E p, q \in Accepters :
        /\ procs[p].status = 200
        /\ procs[q].token = procs[p].token
        /\ FoundAccepted(q)
        /\ procs[q].detail = "Invitation has already been accepted"
        /\ Cardinality(DOMAIN users) = 2

\* ----------------------------------------------------------------------
\* Properties of the time-entry state machine
\* ----------------------------------------------------------------------

\* The entry the last request named, as the request found it.
HadOwnEntry == resp.entry_id \in DOMAIN resp.pre
                 /\ resp.pre[resp.entry_id].user_id = resp.principal

\* C4: a start request by a user who already has a Running or Paused entry
\* fails, creates no time entry and leaves the existing entry unchanged.
C4_StartWithActiveEntryFails ==
    (/\ resp.op = "start"
     /\ \E id \in DOMAIN resp.pre :
            /\ resp.pre[id].user_id = resp.principal
            /\ Running(resp.pre[id]) \/ Paused(resp.pre[id]))
        => /\ resp.status # 200
           /\ entries = resp.pre

C4_Witness ==
    /\ resp.op = "start" /\ resp.status = 400
    /\ \E id \in DOMAIN resp.pre :
           resp.pre[id].user_id = resp.principal /\ Paused(resp.pre[id])
    /\ \E id \in DOMAIN resp.pre : Stopped(resp.pre[id])

\* C5: Stopped is terminal.  A stop succeeds only on an entry that was
\* Running or Paused; a stop, pause or resume on an entry whose end_time is
\* set fails and leaves the entry (end_time, duration, is_paused,
\* pause_periods, total_pause_duration) as it was.
C5_StoppedIsTerminal ==
    (resp.op \in {"stop", "pause", "resume"} /\ resp.entry_id \in DOMAIN resp.pre)
        => LET e == resp.pre[resp.entry_id] IN
           /\ (resp.op = "stop" /\ resp.status = 200) => (Running(e) \/ Paused(e))
           /\ Stopped(e) => /\ resp.status # 200
                            /\ entries[resp.entry_id] = e

C5_Witness ==
    /\ resp.op \in {"pause", "resume"} /\ resp.status = 400
    /\ HadOwnEntry
    /\ Stopped(resp.pre[resp.entry_id])
    /\ resp.pre[resp.entry_id].pause_periods # << >>

WallClock(e) == e.end_time - e.start_time

RECURSIVE PausedSeconds(_, _)
\* P: the seconds spent paused, an open pause counted up to the stop time.
PausedSeconds(periods, end_time) ==
    IF periods = << >> THEN 0
    ELSE LET h == Head(periods) IN
         (IF h.resume_time = NoTime THEN end_time - h.pause_time
          ELSE h.resume_time - h.pause_time)
         + PausedSeconds(Tail(periods), end_time)

\* C7 as stated: the duration stop computes is W - P, and is never
\* negative, also when the stop time precedes start_time.
C7_DurationIsWMinusP ==
    \A id \in DOMAIN entries :
        LET e == entries[id] IN
        Stopped(e) =>
            /\ e.duration = WallClock(e) - PausedSeconds(e.pause_periods, e.end_time)
            /\ e.duration >= 0

\* C7 amended: the duration stop computes is max(0, max(0, W) - P), never
\* negative; it is W - P whenever the clock was never stepped back.
C7_DurationIsClampedWMinusP ==
    \A id \in DOMAIN entries :
        LET e == entries[id]
            W == WallClock(e)
            P == PausedSeconds(e.pause_periods, e.end_time)
        IN  Stopped(e) =>
                /\ e.duration = Max(0, Max(0, W) - P)
                /\ e.duration >= 0
                /\ skew = 0 => e.duration = W - P

C7_Witness ==
    /\ resp.op = "stop" /\ resp.status = 200
    /\ LET e == entries[resp.entry_id] IN
       /\ e.pause_periods # << >>
       /\ PausedSeconds(e.pause_periods, e.end_time) > 0
       /\ e.duration > 0
       /\ e.duration = WallClock(e) - PausedSeconds(e.pause_periods, e.end_time)

\* ======================================================================
\* Organization registration (routes/organizations.py register_organization)
\* ======================================================================

\* Concurrent POST /organizations/register requests; they run next to the
\* accept_invitation requests of RegAccepters.
Registrars == (MaxAccepters + 1)..(MaxAccepters + MaxRegistrars)
RegAccepters == {1}

OrgIds == {"orgA", "orgB", "orgC", "orgD", "orgE"}
RegDomains == {"acme", "Acme"}
RegEmails == {"e1", "e3"}

\* str.lower() on the submitted organization_domain.
Lower(d) == IF d = "Acme" THEN "acme" ELSE d

\* Organization(name, domain, email, plan, status=TRIAL): current_users 0,
\* owner_id None.
RegisteredOrg(domain, email) ==
    OrgDoc("trial", 0) @@ [domain |-> domain, email |-> email, owner_id |-> None]

\* User(role=ADMIN, organization_id, is_organization_owner=True).
OwnerUser(email, org) == UserDoc(org, "admin", TRUE) @@ [email |-> email]

\* {"domain": organization_domain.lower()}
OrgsByDomain(domain) == {o \in DOMAIN orgs : orgs[o].domain = domain}

EmailRegisteredNever(email) == FALSE

\* existing_user: get_document("users", {"email": admin_email})
EmailRegistered(email) == UsersByEmail(email) # {}

\* uuid4: an id no stored organization has.
FreshOrgId == CHOOSE o \in OrgIds : o \notin DOMAIN orgs

IdleRegistrar ==
    [pc |-> "idle", domain |-> None, email |-> None, form |-> None, held |-> FALSE,
     org |-> None, owner |-> None, status |-> 0, detail |-> None]

\* One active organization with its owner (email e1) and a pending
\* invitation of that organization for the still free email e3.
InitRegister ==
    /\ orgs = [o \in {"orgA"} |->
                 OrgDoc("active", 1) @@ [domain |-> "alpha", email |-> "e1", owner_id |-> "u1"]]
    /\ users = [u \in {"u1"} |-> OwnerUser("e1", "orgA")]
    /\ invitations = [k \in {"k1"} |-> InvitationDoc("e3", "user", "orgA", InviteTtl)]
    /\ projects = Empty /\ tasks = Empty /\ entries = Empty
    /\ now = 0 /\ skew = 0
    /\ procs = [p \in RegAccepters \cup Registrars |->
                  IF p \in Registrars THEN IdleRegistrar ELSE IdleAccepter]
    /\ resp = [op |-> "init"]
    /\ reset_tokens = Empty /\ telemetry = {} /\ policies = {}

RegFrame == <<projects, tasks, entries, invitations, now, skew, resp, reset_tokens, telemetry>>

\* The request arrives; the terms check precedes the first database call.
\* `held` remembers whether the email belonged to a user at that moment.
RegBegin(p) ==
    /\ procs[p].pc = "idle"
    /\ \E d \in RegDomains, e \in RegEmails, f \in {"ok", "no_terms", "weak_password"} :
          LET got == [procs EXCEPT ![p].domain = d, ![p].email = e, ![p].form = f,
                                   ![p].held = UsersByEmail(e) # {}]
          IN  procs' =
                IF f = "no_terms"
                THEN [got EXCEPT ![p].pc = "done", ![p].status = 400,
                        ![p].detail = "Must accept terms and conditions and privacy policy"]
                ELSE [got EXCEPT ![p].pc = "check_domain"]
    /\ UNCHANGED <<users, orgs, policies>>
    /\ UNCHANGED RegFrame

\* await get_document("organizations", {"domain": ...})
RegCheckDomain(p) ==
    /\ procs[p].pc = "check_domain"
    /\ procs' = IF OrgsByDomain(Lower(procs[p].domain)) # {}
                THEN Answer(p, 400, "Organization domain already exists. Please choose a different domain.")
                ELSE [procs EXCEPT ![p].pc = "check_email"]
    /\ UNCHANGED <<users, orgs, policies>>
    /\ UNCHANGED RegFrame

\* await get_document("users", {"email": admin_email}), then the password
\* strength check.
RegCheckEmail(p) ==
    /\ procs[p].pc = "check_email"
    /\ procs' = IF EmailRegistered(procs[p].email)
                THEN Answer(p, 400, "Email address already registered. Please use a different email or login to your existing account.")
                ELSE IF procs[p].form = "weak_password"
                THEN Answer(p, 400, "Password must be at least 8 characters long and contain uppercase, lowercase, and numbers")
                ELSE [procs EXCEPT ![p].pc = "insert_org"]
    /\ UNCHANGED <<users, orgs, policies>>
    /\ UNCHANGED RegFrame

\* await create_document("organizations", org_dict)
RegInsertOrg(p) ==
    /\ procs[p].pc = "insert_org"
    /\ LET o == FreshOrgId IN
       /\ orgs' = [x \in DOMAIN orgs \cup {o} |->
                     IF x \in DOMAIN orgs THEN orgs[x]
                     ELSE RegisteredOrg(Lower(procs[p].domain), procs[p].email)]
       /\ procs' = [procs EXCEPT ![p].pc = "insert_user", ![p].org = o]
    /\ UNCHANGED <<users, policies>>
    /\ UNCHANGED RegFrame

\* await create_document("users", admin_dict): a DuplicateKeyError of the
\* unique email index is caught by `except Exception` and answered 500.
RegInsertUser(p) ==
    /\ procs[p].pc = "insert_user"
    /\ IF DuplicateEmail(procs[p].email)
       THEN /\ procs' = Answer(p, 500, "Failed to register organization")
            /\ UNCHANGED users
       ELSE LET u == FreshUserId IN
            /\ users' = [x \in DOMAIN users \cup {u} |->
                           IF x \in DOMAIN users THEN users[x]
                           ELSE OwnerUser(procs[p].email, procs[p].org)]
            /\ procs' = [procs EXCEPT ![p].pc = "set_owner", ![p].owner = u]
    /\ UNCHANGED <<orgs, policies>>
    /\ UNCHANGED RegFrame

\* await update_document("organizations", {"$set": {"owner_id", "current_users": 1}})
RegSetOwner(p) ==
    /\ procs[p].pc = "set_owner"
    /\ orgs' = [orgs EXCEPT ![procs[p].org].owner_id = procs[p].owner,
                            ![procs[p].org].current_users = 1]
    /\ procs' = [procs EXCEPT ![p].pc = "insert_policy"]
    /\ UNCHANGED <<users, policies>>
    /\ UNCHANGED RegFrame

\* await create_document("organization_security_policies", ...), then the
\* audit log entry (its failures are swallowed), the token and the response.
RegInsertPolicy(p) ==
    /\ procs[p].pc = "insert_policy"
    /\ policies' = policies \cup {[organization_id |-> procs[p].org]}
    /\ procs' = Answer(p, 200, "ok")
    /\ UNCHANGED <<users, orgs>>
    /\ UNCHANGED RegFrame

NextRegister ==
    \/ \E p \in Registrars :
          \/ RegBegin(p) \/ RegCheckDomain(p) \/ RegCheckEmail(p) \/ RegInsertOrg(p)
          \/ RegInsertUser(p) \/ RegSetOwner(p) \/ RegInsertPolicy(p)
    \/ \E p \in RegAccepters :
          \/ AcceptBegin(p) \/ AcceptFind(p) \/ AcceptCheckUser(p) \/ AcceptCheckOrg(p)
          \/ AcceptInsertUser(p) \/ AcceptIncUsers(p) \/ AcceptMark(p)

SpecRegister == InitRegister /\ [][NextRegister]_vars

\* The email a request is about: the admin_email of a registration, the
\* email of the invitation an acceptance names.
RequestEmail(p) ==
    IF p \in Registrars THEN procs[p].email
    ELSE IF procs[p].token \in DOMAIN invitations
         THEN invitations[procs[p].token].email ELSE None

\* The organization a request would add the user to.
RequestOrg(p) ==
    IF p \in Registrars THEN procs[p].org
    ELSE IF procs[p].token \in DOMAIN invitations
         THEN invitations[procs[p].token].organization_id ELSE None

\* The email of the request belongs to a user of another organization,
\* and for a registration did so when the request arrived.
EmailHeldElsewhere(p) ==
    /\ p \in Registrars => procs[p].held
    /\ \E u \in DOMAIN users :
          users[u].email = RequestEmail(p) /\ users[u].organization_id # RequestOrg(p)

\* C11: when the email of a registration (at its arrival) or of an
\* invitation acceptance belongs to a user of another organization, no step
\* of that request writes: users, organizations, invitations and security
\* policies stay as they are, and the request does not end in success.
C11_TakenEmailFailsBeforeWrite ==
    [][\A p \in RegAccepters \cup Registrars :
          (EmailHeldElsewhere(p) /\ procs'[p].pc # procs[p].pc)
             => /\ UNCHANGED <<users, orgs, invitations, policies>>
                /\ procs'[p].pc = "done" => procs'[p].status \notin {200, 0}]_vars

\* A registration and an acceptance have both been refused for an email
\* that another organization's user holds.
C11_Witness ==
    /\ \E p \in Registrars :
          /\ procs[p].pc = "done" /\ procs[p].status = 400
          /\ EmailHeldElsewhere(p)
          /\ procs[p].detail = "Email address already registered. Please use a different email or login to your existing account."
    /\ \E p \in RegAccepters :
          /\ procs[p].pc = "done" /\ procs[p].status = 400
          /\ EmailHeldElsewhere(p)
          /\ procs[p].detail = "User with this email already exists in another organization"

\* C12: no two organizations have the same case-normalized domain, under
\* every interleaving of register_organization requests.
C12_DomainUnique ==
    \A o1, o2 \in DOMAIN orgs :
        o1 # o2 => Lower(orgs[o1].domain) # Lower(orgs[o2].domain)

\* C13: a registration that failed left no organization behind (and one
\* that succeeded left organization, owner and security policy).
C13_RegistrationAtomic ==
    \A p \in Registrars :
        procs[p].pc = "done" =>
            IF procs[p].status = 200
            THEN /\ procs[p].org \in DOMAIN orgs
                 /\ procs[p].owner \in DOMAIN users
                 /\ [organization_id |-> procs[p].org] \in policies
            ELSE procs[p].org \notin DOMAIN orgs

\* ======================================================================
\* Password reset (routes/auth.py forgot_password, reset_password)
\* ======================================================================

Forgetters == 1..MaxForgetters
Resetters == (MaxForgetters + 1)..(MaxForgetters + MaxResetters)

\* e1: user of an active organization; e2: user of a trial organization;
\* e9: nobody.
ForgotEmails == {"e1", "e2", "e9"}
ResetTokenIds == {"r1", "r2", "r3"}

\* timedelta(hours=1), in the time unit of this specification.
ResetTtl == 1

\* PasswordResetToken(email, expires_at) plus organization_id: used = False.
PasswordResetToken(email, org, expires_at) ==
    [email |-> email, organization_id |-> org, expires_at |-> expires_at, used |-> FALSE]

\* {"email": email, "used": False}
UnusedTokens(email) ==
    {t \in DOMAIN reset_tokens : reset_tokens[t].email = email /\ ~reset_tokens[t].used}

\* update_document -> update_one: the one matching document the store
\* picks, none when nothing matches.
MarkOneUnused(email, chosen) == UnusedTokens(email) \cap {chosen}

\* uuid4: a token value no stored token has.
FreshResetToken == CHOOSE t \in ResetTokenIds : t \notin DOMAIN reset_tokens

\* The body forgot_password answers for an email nobody has.
GenericBody ==
    [message |-> "If an account with this email exists, you will receive a password reset link."]

IdleForgetter ==
    [pc |-> "idle", email |-> None, org |-> None, status |-> 0, body |-> GenericBody]

IdleResetter ==
    [pc |-> "idle", token |-> None, email |-> None, org |-> None,
     status |-> 0, detail |-> None]

\* hash_password(new_password) replaces the stored hash.
StoredUser(email, org, owner) == OwnerUser(email, org) @@ [password |-> "h0"]

InitReset ==
    /\ orgs = [o \in {"orgA", "orgB"} |->
                 IF o = "orgA" THEN OrgDoc("active", 1) ELSE OrgDoc("trial", 1)]
    /\ users = [u \in {"u1", "u2"} |->
                  IF u = "u1" THEN StoredUser("e1", "orgA", TRUE)
                  ELSE StoredUser("e2", "orgB", TRUE)]
    /\ invitations = Empty /\ projects = Empty /\ tasks = Empty /\ entries = Empty
    /\ now = 0 /\ skew = 0
    /\ procs = [p \in Forgetters \cup Resetters |->
                  IF p \in Forgetters THEN IdleForgetter ELSE IdleResetter]
    /\ resp = [op |-> "init"]
    /\ reset_tokens = Empty /\ telemetry = {} /\ policies = {}

ResetFrame == <<orgs, projects, tasks, entries, invitations, now, skew, resp, telemetry, policies>>

\* POST /forgot-password arrives.
ForgotBegin(p) ==
    /\ procs[p].pc = "idle"
    /\ \E e \in ForgotEmails :
          procs' = [procs EXCEPT ![p].pc = "find_user", ![p].email = e]
    /\ UNCHANGED <<users, reset_tokens>>
    /\ UNCHANGED ResetFrame

\* await get_document("users", {"email"}): no user, the generic message.
ForgotFindUser(p) ==
    /\ procs[p].pc = "find_user"
    /\ LET found == UsersByEmail(procs[p].email) IN
       procs' = IF found = {}
                THEN [procs EXCEPT ![p].pc = "done", ![p].status = 200, ![p].body = GenericBody]
                ELSE [procs EXCEPT ![p].pc = "find_org",
                                   ![p].org = users[CHOOSE u \in found : TRUE].organization_id]
    /\ UNCHANGED <<users, reset_tokens>>
    /\ UNCHANGED ResetFrame

\* await get_document("organizations", {"id"}): not active, the generic
\* message.
ForgotFindOrg(p) ==
    /\ procs[p].pc = "find_org"
    /\ LET o == procs[p].org IN
       procs' = IF o \notin DOMAIN orgs \/ orgs[o].status # "active"
                THEN [procs EXCEPT ![p].pc = "done", ![p].status = 200, ![p].body = GenericBody]
                ELSE [procs EXCEPT ![p].pc = "mark_used"]
    /\ UNCHANGED <<users, reset_tokens>>
    /\ UNCHANGED ResetFrame

\* await update_document("password_reset_tokens", {"email", "used": False},
\* {"$set": {"used": True}})
ForgotMarkUsed(p) ==
    /\ procs[p].pc = "mark_used"
    /\ \E chosen \in ResetTokenIds :
          /\ UnusedTokens(procs[p].email) # {} => chosen \in UnusedTokens(procs[p].email)
          /\ reset_tokens' =
                [t \in DOMAIN reset_tokens |->
                    IF t \in MarkOneUnused(procs[p].email, chosen)
                    THEN [reset_tokens[t] EXCEPT !.used = TRUE]
                    ELSE reset_tokens[t]]
    /\ procs' = [procs EXCEPT ![p].pc = "insert_token"]
    /\ UNCHANGED users
    /\ UNCHANGED ResetFrame

\* await create_document("password_reset_tokens", token_dict), then the
\* email (sent or not) and the response.
ForgotInsertToken(p) ==
    /\ procs[p].pc = "insert_token"
    /\ reset_tokens' =
          [t \in DOMAIN reset_tokens \cup {FreshResetToken} |->
              IF t \in DOMAIN reset_tokens THEN reset_tokens[t]
              ELSE PasswordResetToken(procs[p].email, procs[p].org, now + ResetTtl)]
    /\ \E email_sent \in BOOLEAN :
          procs' = [procs EXCEPT ![p].pc = "done", ![p].status = 200,
                                 ![p].body = GenericBody @@ [email_sent |-> email_sent]]
    /\ UNCHANGED users
    /\ UNCHANGED ResetFrame

\* POST /reset-password arrives.
ResetBegin(p) ==
    /\ procs[p].pc = "idle"
    /\ \E t \in ResetTokenIds :
          procs' = [procs EXCEPT ![p].pc = "find_token", ![p].token = t]
    /\ UNCHANGED <<users, reset_tokens>>
    /\ UNCHANGED ResetFrame

\* await get_document("password_reset_tokens", {"token", "used": False}),
\* then the expiry check.
ResetFindToken(p) ==
    /\ procs[p].pc = "find_token"
    /\ LET t == procs[p].token IN
       procs' =
         IF t \notin DOMAIN reset_tokens \/ reset_tokens[t].used
         THEN Answer(p, 400, "Invalid or expired reset token")
         ELSE IF now > reset_tokens[t].expires_at
         THEN Answer(p, 400, "Reset token has expired")
         ELSE [procs EXCEPT ![p].pc = "find_user", ![p].email = reset_tokens[t].email,
                            ![p].org = reset_tokens[t].organization_id]
    /\ UNCHANGED <<users, reset_tokens>>
    /\ UNCHANGED ResetFrame

\* await get_document("users", {"email"}), then the organization checks.
ResetFindUser(p) ==
    /\ procs[p].pc = "find_user"
    /\ LET found == UsersByEmail(procs[p].email) IN
       procs' =
         IF found = {}
         THEN Answer(p, 400, "User not found")
         ELSE IF users[CHOOSE u \in found : TRUE].organization_id # procs[p].org
         THEN Answer(p, 400, "Invalid reset token")
         ELSE [procs EXCEPT ![p].pc = "set_password"]
    /\ UNCHANGED <<users, reset_tokens>>
    /\ UNCHANGED ResetFrame

\* await update_document("users", {"email", "organization_id"},
\* {"$set": {"password": hashed_password}})
ResetSetPassword(p) ==
    /\ procs[p].pc = "set_password"
    /\ users' = [u \in DOMAIN users |->
                   IF users[u].email = procs[p].email /\ users[u].organization_id = procs[p].org
                   THEN [users[u] EXCEPT !.password = procs[p].token]
                   ELSE users[u]]
    /\ procs' = [procs EXCEPT ![p].pc = "mark_token"]
    /\ UNCHANGED reset_tokens
    /\ UNCHANGED ResetFrame

\* await update_document("password_reset_tokens", {"token"}, {"$set": {"used": True}})
ResetMarkToken(p) ==
    /\ procs[p].pc = "mark_token"
    /\ reset_tokens' = [reset_tokens EXCEPT ![procs[p].token].used = TRUE]
    /\ procs' = Answer(p, 200, "Password has been reset successfully")
    /\ UNCHANGED users
    /\ UNCHANGED ResetFrame

\* datetime.utcnow() advances.
ResetTick ==
    /\ now < MaxResetTime
    /\ now' = now + 1
    /\ UNCHANGED <<users, orgs, projects, tasks, entries, invitations, reset_tokens,
                   telemetry, policies, skew, procs, resp>>

NextReset ==
    \/ \E p \in Forgetters :
          \/ ForgotBegin(p) \/ ForgotFindUser(p) \/ ForgotFindOrg(p)
          \/ ForgotMarkUsed(p) \/ ForgotInsertToken(p)
    \/ \E p \in Resetters :
          \/ ResetBegin(p) \/ ResetFindToken(p) \/ ResetFindUser(p)
          \/ ResetSetPassword(p) \/ ResetMarkToken(p)
    \/ ResetTick

SpecReset == InitReset /\ [][NextReset]_vars

\* C14: at most one unused password-reset token per email in every
\* reachable state.
C14_OneUnusedTokenPerEmail ==
    \A e \in ForgotEmails : Cardinality(UnusedTokens(e)) <= 1

\* C15: non-enumeration.  Every forgot_password response is the response
\* given for an email nobody has: same status, same body.
C15_ForgotResponseIsGeneric ==
    \A p \in Forgetters :
        procs[p].pc = "done" => procs[p].status = 200 /\ procs[p].body = GenericBody

\* ======================================================================
\* Membership: invitations, profile updates, user deletion
\* (routes/organizations.py invite_user_to_organization,
\*  routes/users.py update_current_user, update_user, delete_user)
\* ======================================================================

MemberInviteTokens == {"k1", "k2", "k3"}
MemberEmails == {"e1", "e7", "e8"}

\* UserRole(invite_data.role) raises ValueError for any other string.
ValidRole(role) == role \in Roles

\* uuid4: a token no stored invitation has.
FreshInviteToken == CHOOSE k \in MemberInviteTokens : k \notin DOMAIN invitations

invite_outcome(cu, email, role) ==
    IF ~get_organization_admin(cu)
    THEN Outcome(403, "Organization administrator access required")
    ELSE IF UsersByEmail(email) # {}
    THEN Outcome(400, "User with this email already exists in another organization")
    ELSE IF orgs[users[cu].organization_id].current_users
              >= orgs[users[cu].organization_id].max_users
    THEN Outcome(400, "Organization has reached maximum user limit")
    ELSE IF ~ValidRole(role)
    THEN Outcome(500, "Failed to send invitation")
    ELSE Outcome(200, "ok")

MemberFrame == <<projects, tasks, entries, now, skew, procs, reset_tokens, telemetry, policies>>

\* POST /organizations/invite
invite_user_to_organization(tok, email, role) ==
    LET cu == get_current_user(tok) IN
    /\ cu.status = 200
    /\ LET out == invite_outcome(cu.principal, email, role) IN
       /\ invitations' =
             IF out.status = 200
             THEN [k \in DOMAIN invitations \cup {FreshInviteToken} |->
                     IF k \in DOMAIN invitations THEN invitations[k]
                     ELSE InvitationDoc(email, role, users[cu.principal].organization_id,
                                        now + InviteTtl)]
             ELSE invitations
       /\ resp' = TenantResp("invite_user_to_organization", cu.principal, email, role, out, {})
    /\ UNCHANGED <<users, orgs>>
    /\ UNCHANGED MemberFrame

\* The request body of PUT /users/me, a field being None when absent.
ProfilePayloads ==
    [name : {None, "n1"}, role : {None, "admin"},
     organization_id : {None, "orgB"}, is_organization_owner : {None, "true"}]

\* UserUpdate(**body).dict(exclude_unset=True): the model has no
\* organization_id and no is_organization_owner field, so they are dropped
\* on parsing; the fields that were sent remain.
UserUpdateDict(payload) ==
    [k \in {f \in {"name", "role"} : payload[f] # None} |-> payload[k]]

no_forbidden_fields == {}

forbidden_fields == {"role", "organization_id", "is_organization_owner"}

\* for field in forbidden_fields: if field in update_data: del update_data[field]
StripForbidden(update_data) ==
    [k \in DOMAIN update_data \ forbidden_fields |-> update_data[k]]

\* {"$set": update_data} on one document.
SetFields(doc, update_data) ==
    [k \in DOMAIN doc |-> IF k \in DOMAIN update_data THEN update_data[k] ELSE doc[k]]

\* PUT /users/me
update_current_user(tok, payload) ==
    LET cu == get_current_user(tok) IN
    /\ cu.status = 200
    /\ LET update_data == StripForbidden(UserUpdateDict(payload))
           me == cu.principal
       IN  /\ users' = IF DOMAIN update_data # {} /\ UserInOrg(me, users[me].organization_id)
                       THEN [users EXCEPT ![me] = SetFields(@, update_data)]
                       ELSE users
           /\ resp' = TenantResp("update_current_user", me, me, payload,
                                 Outcome(200, "ok"), {users[me].organization_id})
    /\ UNCHANGED <<orgs, invitations>>
    /\ UNCHANGED MemberFrame

MemberUser(email, org, role, owner) ==
    UserDoc(org, role, owner) @@ [email |-> email, name |-> "n0"]

InitMembers ==
    /\ orgs = [o \in {"orgA", "orgB"} |->
                 OrgDoc("active", IF o = "orgA" THEN 2 ELSE 1)
                   @@ [owner_id |-> IF o = "orgA" THEN "u2" ELSE "u3"]]
    /\ users = [u \in {"u1", "u2", "u3"} |->
                  IF u = "u1" THEN MemberUser("e1", "orgA", "user", FALSE)
                  ELSE IF u = "u2" THEN MemberUser("e2", "orgA", "admin", TRUE)
                  ELSE MemberUser("e3", "orgB", "admin", TRUE)]
    /\ invitations = Empty /\ projects = Empty /\ tasks = Empty /\ entries = Empty
    /\ now = 0 /\ skew = 0 /\ procs = Empty
    /\ resp = [op |-> "init"]
    /\ reset_tokens = Empty /\ telemetry = {} /\ policies = {}

MemberUserIds == {"u1", "u2", "u3"}

InviteUser ==
    \E tok \in IssuedTokens, email \in MemberEmails, role \in {"user", "owner"} :
        /\ invite_user_to_organization(tok, email, role)
        /\ Cardinality(DOMAIN invitations') <= MaxInvitations
UpdateCurrentUser ==
    \E tok \in IssuedTokens, payload \in ProfilePayloads : update_current_user(tok, payload)
MemberUpdateUser ==
    \E tok \in IssuedTokens, uid \in MemberUserIds : update_user(tok, uid, "manager")
MemberDeleteUser ==
    \E tok \in IssuedTokens, uid \in MemberUserIds : delete_user(tok, uid)

NextMembers == UpdateCurrentUser \/ MemberUpdateUser \/ MemberDeleteUser

SpecMembers == InitMembers /\ [][NextMembers]_vars

\* Invitations on their own: admins of both organizations invite.
NextInviting == InviteUser

SpecInviting == InitMembers /\ [][NextInviting]_vars

\* C16: at most one unaccepted invitation per email in every reachable
\* state.
C16_OnePendingInvitationPerEmail ==
    \A k1, k2 \in DOMAIN invitations :
        (k1 # k2 /\ ~invitations[k1].accepted /\ ~invitations[k2].accepted)
            => invitations[k1].email # invitations[k2].email

\* The body names a field the user may not set on their own profile.
CarriesForbidden(payload) ==
    \E f \in {"role", "organization_id", "is_organization_owner"} : payload[f] # None

\* role, organization_id and is_organization_owner of every user are the
\* same before and after the step.
ProtectedFieldsKept ==
    \A u \in DOMAIN users :
        /\ u \in DOMAIN users'
        /\ users'[u].role = users[u].role
        /\ users'[u].organization_id = users[u].organization_id
        /\ users'[u].is_organization_owner = users[u].is_organization_owner

OwnersPresent ==
    \A o \in DOMAIN orgs :
        /\ orgs[o].owner_id \in DOMAIN users
        /\ users[orgs[o].owner_id].organization_id = o
        /\ users[orgs[o].owner_id].is_organization_owner

TelemetryRecord(collection, uid, eid, org) ==
    [collection |-> collection, user_id |-> uid, time_entry_id |-> eid,
     organization_id |-> org]

\* {"id": time_entry_id, "user_id": current_user.id,
\*  "organization_id": current_user.organization_id}
EntryOfCaller(eid, cu) ==
    /\ eid \in DOMAIN entries
    /\ entries[eid].user_id = cu
    /\ entries[eid].organization_id = users[cu].organization_id

\* The monitoring paths security_middleware answers 503 for.
VULNERABLE_ENDPOINTS ==
    {"/api/monitoring/application/switch", "/api/monitoring/website/navigate",
     "/api/monitoring/settings"}

\* security_middleware: TRUE when the request is answered 503 before it
\* reaches the route.
Blocked(path) == path \in VULNERABLE_ENDPOINTS

\* `except Exception` without `except HTTPException: raise`: the route's
\* own HTTPException is caught and re-raised as 500 with this detail.
CaughtAs(out, detail) == IF out.status = 200 THEN out ELSE Outcome(500, detail)

EntryLookup(eid, cu) ==
    IF EntryOfCaller(eid, cu) THEN Outcome(200, "ok")
    ELSE Outcome(404, "Time entry not found")

MonitorResp(op, cu, eid, out) ==
    [op |-> op, principal |-> cu, org |-> users[cu].organization_id, id |-> eid,
     status |-> out.status, detail |-> out.detail, pre |-> telemetry]

Store(out, records) == IF out.status = 200 THEN telemetry \cup records ELSE telemetry

MonitorFrame == <<users, orgs, projects, tasks, invitations, now, skew, procs, reset_tokens, policies>>

\* POST /time-tracking/activity: the body's time_entry_id is stored as
\* sent, user_id and organization_id are the caller's.
record_activity(tok, eid) ==
    LET cu == get_current_user(tok) IN
    /\ cu.status = 200
    /\ LET me == cu.principal
           out == Outcome(200, "ok")
       IN  /\ telemetry' = Store(out, {TelemetryRecord("activity_data", me, eid,
                                                       users[me].organization_id)})
           /\ resp' = MonitorResp("record_activity", me, eid, out)
    /\ UNCHANGED entries
    /\ UNCHANGED MonitorFrame

\* POST /time-tracking/screenshot; the $push on the entry is by id alone.
time_tracking_upload_screenshot(tok, eid) ==
    LET cu == get_current_user(tok) IN
    /\ cu.status = 200
    /\ LET me == cu.principal
           out == EntryLookup(eid, me)
       IN  /\ telemetry' = Store(out, {TelemetryRecord("screenshots", me, eid,
                                                       users[me].organization_id)})
           /\ entries' = IF out.status = 200
                         THEN [entries EXCEPT ![eid].screenshots = @ + 1]
                         ELSE entries
           /\ resp' = MonitorResp("time_tracking_upload_screenshot", me, eid, out)
    /\ UNCHANGED MonitorFrame

\* POST /monitoring/screenshot/upload.  The file goes to the storage
\* service (outside the document store) before the entry is looked up.
upload_screenshot(tok, eid, is_image) ==
    LET cu == get_current_user(tok) IN
    /\ cu.status = 200
    /\ LET me == cu.principal
           out == CaughtAs(IF ~is_image THEN Outcome(400, "File must be an image")
                           ELSE EntryLookup(eid, me),
                           "Failed to upload screenshot")
       IN  /\ telemetry' = Store(out, {TelemetryRecord("screenshots", me, eid,
                                                       users[me].organization_id)})
           /\ entries' = IF out.status = 200
                         THEN [entries EXCEPT ![eid].screenshots = @ + 1]
                         ELSE entries
           /\ resp' = MonitorResp("upload_screenshot", me, eid, out)
    /\ UNCHANGED MonitorFrame

\* POST /monitoring/activity/update: opens an activity session when the
\* entry has none, and stores keystroke data when keystroke_count > 0.
update_activity(tok, eid, keystroke_count) ==
    LET cu == get_current_user(tok) IN
    /\ cu.status = 200
    /\ LET me == cu.principal
           org == users[me].organization_id
           out == CaughtAs(EntryLookup(eid, me), "Failed to update activity")
       IN  /\ telemetry' =
                 Store(out, {TelemetryRecord("activity_sessions", me, eid, org)}
                            \cup IF keystroke_count > 0
                                 THEN {TelemetryRecord("keystroke_data", me, eid, org)}
                                 ELSE {})
           /\ resp' = MonitorResp("update_activity", me, eid, out)
    /\ UNCHANGED entries
    /\ UNCHANGED MonitorFrame

\* POST /monitoring/application/switch, behind security_middleware.  The
\* route closes the open application_usage record and inserts a new one.
record_application_switch(tok, eid) ==
    LET cu == get_current_user(tok) IN
    /\ cu.status = 200
    /\ LET me == cu.principal
           out == IF Blocked("/api/monitoring/application/switch")
                  THEN Outcome(503, "Endpoint temporarily disabled for security patches")
                  ELSE CaughtAs(EntryLookup(eid, me), "Failed to record application switch")
       IN  /\ telemetry' = Store(out, {TelemetryRecord("application_usage", me, eid,
                                                       users[me].organization_id)})
           /\ resp' = MonitorResp("record_application_switch", me, eid, out)
    /\ UNCHANGED entries
    /\ UNCHANGED MonitorFrame

\* POST /monitoring/website/navigate, behind security_middleware.
record_website_navigation(tok, eid) ==
    LET cu == get_current_user(tok) IN
    /\ cu.status = 200
    /\ LET me == cu.principal
           out == IF Blocked("/api/monitoring/website/navigate")
                  THEN Outcome(503, "Endpoint temporarily disabled for security patches")
                  ELSE CaughtAs(EntryLookup(eid, me), "Failed to record website navigation")
       IN  /\ telemetry' = Store(out, {TelemetryRecord("website_visits", me, eid,
                                                       users[me].organization_id)})
           /\ resp' = MonitorResp("record_website_navigation", me, eid, out)
    /\ UNCHANGED entries
    /\ UNCHANGED MonitorFrame

\* A running entry of u1 (orgA) and one of u3 (orgB); id 3 names nothing.
InitMonitor ==
    /\ users = [u \in {"u1", "u3"} |->
                  IF u = "u1" THEN UserDoc("orgA", "user", FALSE)
                  ELSE UserDoc("orgB", "admin", TRUE)]
    /\ projects = [p \in {"p1", "p2"} |->
                     IF p = "p1" THEN ProjectDoc("orgA", "u1") ELSE ProjectDoc("orgB", "u3")]
    /\ entries = [id \in {1, 2} |->
                    (IF id = 1 THEN NewEntry("u1", "p1", "orgA", 0)
                     ELSE NewEntry("u3", "p2", "orgB", 0)) @@ [screenshots |-> 0]]
    /\ orgs = Empty /\ tasks = Empty /\ invitations = Empty
    /\ now = 0 /\ skew = 0 /\ procs = Empty
    /\ resp = [op |-> "init"]
    /\ reset_tokens = Empty /\ telemetry = {} /\ policies = {}

MonitorEntryIds == {1, 2, 3}

\* At most MaxTelemetry stored records and screenshots per entry.
TelemetryWithin ==
    /\ Cardinality(telemetry') <= MaxTelemetry
    /\ \A id \in DOMAIN entries' : entries'[id].screenshots <= MaxTelemetry

RecordActivity ==
    \E tok \in IssuedTokens, eid \in MonitorEntryIds :
        record_activity(tok, eid) /\ TelemetryWithin
TimeTrackingUploadScreenshot ==
    \E tok \in IssuedTokens, eid \in MonitorEntryIds :
        time_tracking_upload_screenshot(tok, eid) /\ TelemetryWithin
UploadScreenshot ==
    \E tok \in IssuedTokens, eid \in MonitorEntryIds, is_image \in BOOLEAN :
        upload_screenshot(tok, eid, is_image) /\ TelemetryWithin
UpdateActivity ==
    \E tok \in IssuedTokens, eid \in MonitorEntryIds, keystroke_count \in {0, 1} :
        update_activity(tok, eid, keystroke_count) /\ TelemetryWithin
RecordApplicationSwitch ==
    \E tok \in IssuedTokens, eid \in MonitorEntryIds :
        record_application_switch(tok, eid) /\ TelemetryWithin
RecordWebsiteNavigation ==
    \E tok \in IssuedTokens, eid \in MonitorEntryIds :
        record_website_navigation(tok, eid) /\ TelemetryWithin

NextMonitor ==
    \/ RecordActivity \/ TimeTrackingUploadScreenshot \/ UploadScreenshot
    \/ UpdateActivity \/ RecordApplicationSwitch \/ RecordWebsiteNavigation

SpecMonitor == InitMonitor /\ [][NextMonitor]_vars

\* C17: every stored telemetry record references an existing time entry
\* with the record's user_id and organization_id.
C17_TelemetryAnchored ==
    \A r \in telemetry :
        /\ r.time_entry_id \in DOMAIN entries
        /\ entries[r.time_entry_id].user_id = r.user_id
        /\ entries[r.time_entry_id].organization_id = r.organization_id

MonitoringIngestionOps ==
    {"upload_screenshot", "update_activity", "record_application_switch",
     "record_website_navigation"}

\* C18: a monitoring ingestion request whose time_entry_id is not an entry
\* of the caller in the caller's organization is answered 404 NotFound and
\* stores nothing.
C18_ForeignEntryNotFound ==
    (/\ resp.op \in MonitoringIngestionOps
     /\ ~EntryOfCaller(resp.id, resp.principal))
        => resp.status = 404 /\ telemetry = resp.pre


\* ======================================================================
\* Tasks (routes/projects.py create_task, update_task, delete_project;
\*  routes/users.py delete_user)
\* ======================================================================

\* str(uuid.uuid4()): an id no task has.
FreshTaskId == CHOOSE t \in TaskIds \cup {"t4", "t5"} : t \notin DOMAIN tasks

create_task_outcome(cu, pid, assignee_id) ==
    IF ~ProjectInOrg(pid, users[cu].organization_id)
    THEN Outcome(404, "Project not found")
    ELSE IF ~UserInOrg(assignee_id, users[cu].organization_id)
    THEN Outcome(400, "Assignee not found in your organization")
    ELSE Outcome(200, "ok")

create_task(tok, pid, assignee_id) ==
    LET cu == get_current_user(tok) IN
    /\ cu.status = 200
    /\ LET out == create_task_outcome(cu.principal, pid, assignee_id)
           org == users[cu.principal].organization_id
           task == [TaskDoc(org, pid, assignee_id) EXCEPT !.created_by = cu.principal,
                                                           !.updated_at = now]
       IN
       /\ tasks' = IF out.status = 200
                   THEN [t \in DOMAIN tasks \cup {FreshTaskId} |->
                           IF t \in DOMAIN tasks THEN tasks[t] ELSE task]
                   ELSE tasks
       /\ resp' = TenantResp("create_task", cu.principal,
                      IF out.status = 200 THEN FreshTaskId ELSE None,
                      assignee_id, out,
                      IF out.status = 200 THEN {org} ELSE {})
    /\ UNCHANGED <<users, orgs, projects, entries, invitations, reset_tokens, telemetry, policies, now, skew, procs>>

\* ----------------------------------------------------------------------
\* Specification SpecTasks: two organizations, task requests from either
\* ----------------------------------------------------------------------
InitTasks ==
    /\ users = [u \in {"u1", "u2", "u3"} |->
                  IF u = "u1" THEN UserDoc("orgA", "user", FALSE)
                  ELSE IF u = "u2" THEN UserDoc("orgA", "admin", TRUE)
                  ELSE UserDoc("orgB", "admin", TRUE)]
    /\ projects = [p \in {"p1", "p2"} |->
                     IF p = "p1" THEN ProjectDoc("orgA", "u2") ELSE ProjectDoc("orgB", "u3")]
    /\ tasks = Empty
    /\ orgs = Empty /\ entries = Empty /\ invitations = Empty
    /\ now = 0 /\ skew = 0 /\ procs = Empty
    /\ resp = [op |-> "init"]
    /\ reset_tokens = Empty /\ telemetry = {} /\ policies = {}

\* Payloads: nothing set, the status alone, every field, and an assignee of
\* the other organization.
TaskPayloads ==
    {TaskUpdate(None, None, None), TaskUpdate(None, "done", None),
     TaskUpdate("n1", "done", "u2"), TaskUpdate(None, None, "u3")}

CreateTask ==
    \E tok \in IssuedTokens, pid \in {"p1", "p2"}, a \in {"u1", "u3"} :
        /\ create_task(tok, pid, a)
        /\ Cardinality(DOMAIN tasks') <= MaxTasks

UpdateTaskFields ==
    \E tok \in IssuedTokens, tid \in TaskIds, task_update \in TaskPayloads :
        update_task(tok, tid, task_update)

TaskDeleteProject ==
    \E tok \in IssuedTokens, pid \in {"p1", "p2", "p3"} : delete_project(tok, pid)

TaskDeleteUser ==
    \E tok \in IssuedTokens, uid \in {"u1", "u2", "u4"} : delete_user(tok, uid)

TaskTick ==
    /\ now < MaxTaskTime
    /\ now' = now + 1
    /\ resp' = [op |-> "tick"]
    /\ UNCHANGED <<users, orgs, projects, tasks, entries, invitations, reset_tokens, telemetry, policies, skew, procs>>

NextTasks ==
    \/ CreateTask \/ UpdateTaskFields \/ TaskDeleteProject \/ TaskDeleteUser
    \/ TaskTick

SpecTasks == InitTasks /\ [][NextTasks]_vars

\* C21: every task's project_id names a stored project of the task's
\* organization, and every task's assignee names a stored user of the
\* task's organization, in every state reached by create_task,
\* update_task, delete_project and delete_user.
C21_TaskReferencesResolve ==
    \A t \in DOMAIN tasks :
        /\ ProjectInOrg(tasks[t].project_id, tasks[t].organization_id)
        /\ UserInOrg(tasks[t].assignee_id, tasks[t].organization_id)

\* The caller of the update_task request a step answers is admin/manager.
CallerPrivileged == users[resp'.principal].role \in {"admin", "manager"}

\* The step changes no field of any task outside the set fields.
TasksChangeWithin(fields) ==
    /\ DOMAIN tasks' = DOMAIN tasks
    /\ \A t \in DOMAIN tasks :
          \A f \in DOMAIN tasks[t] \ fields : tasks'[t][f] = tasks[t][f]

\* C24 as stated: an update_task by an assignee who is not admin/manager
\* changes at most the status field of the task, whatever the payload.
C24_AssigneeChangesStatusOnly ==
    [][(resp'.op = "update_task" /\ ~CallerPrivileged)
          => TasksChangeWithin({"status"})]_vars

\* C24: an update_task by a caller who is not admin/manager changes at most
\* the status of the task it names, together with the updated_at stamp the
\* handler sets on every non-empty update, and nothing when the caller is
\* not the assignee; an update_task by admin/manager stores every field the
\* payload sets and never changes organization_id.
C24_UpdateTaskFiltersByRole ==
    [][resp'.op = "update_task" =>
          /\ \A t \in DOMAIN tasks \ {resp'.id} : t \in DOMAIN tasks' /\ tasks'[t] = tasks[t]
          /\ TasksChangeWithin(DOMAIN TaskDoc("orgA", "p1", "u1") \ {"organization_id"})
          /\ ~CallerPrivileged => TasksChangeWithin({"status", "updated_at"})
          /\ (~CallerPrivileged /\ resp'.id \in DOMAIN tasks
                /\ tasks[resp'.id].assignee_id # resp'.principal) => tasks' = tasks
          /\ (CallerPrivileged /\ resp'.status = 200) =>
                \A f \in DOMAIN resp'.arg :
                    resp'.arg[f] # None => tasks'[resp'.id][f] = resp'.arg[f]]_vars

\* An assignee with role user sent name, status and assignee_id; the task
\* took the status and kept its name and assignee.
C24_Witness ==
    /\ resp.op = "update_task" /\ resp.status = 200
    /\ users[resp.principal].role = "user"
    /\ resp.arg = TaskUpdate("n1", "done", "u2")
    /\ tasks[resp.id].status = "done" /\ tasks[resp.id].name = "n0"
    /\ tasks[resp.id].assignee_id = resp.principal
    /\ tasks[resp.id].updated_at = 1

\* C25: a delete_project by an admin/manager on a project of the caller's
\* organization succeeds; afterwards the project and every task of it in
\* that organization are gone, and no document of another organization
\* changed.
C25_DeleteProjectCascades ==
    [][(/\ resp'.op = "delete_project"
        /\ require_admin_or_manager(resp'.principal)
        /\ ProjectInOrg(resp'.id, resp'.org))
          => /\ resp'.status = 200
             /\ resp'.id \notin DOMAIN projects'
             /\ \A t \in DOMAIN tasks' :
                   ~(tasks'[t].project_id = resp'.id /\ tasks'[t].organization_id = resp'.org)
             /\ \A p \in DOMAIN projects :
                   projects[p].organization_id # resp'.org
                      => p \in DOMAIN projects' /\ projects'[p] = projects[p]
             /\ \A t \in DOMAIN tasks :
                   tasks[t].organization_id # resp'.org
                      => t \in DOMAIN tasks' /\ tasks'[t] = tasks[t]]_vars


\* ======================================================================
\* Tracked hours and pause bookkeeping (routes/time_tracking.py stop,
\*  pause, resume)
\* ======================================================================

\* ----------------------------------------------------------------------
\* Specification SpecHours: two users starting and stopping entries on
\* their projects under an advancing clock; the update of the project may
\* fail
\* ----------------------------------------------------------------------
HoursStart ==
    \E tok \in IssuedTokens, pid \in {"p1", "p2"} :
        /\ start_time_tracking(tok, pid)
        /\ Cardinality(DOMAIN entries') <= MaxHoursEntries
HoursStop ==
    \E tok \in IssuedTokens, id \in 1..MaxHoursEntries, project_update_ok \in BOOLEAN :
        stop_time_tracking_with(tok, id, project_update_ok)
HoursTick == TickTo(MaxHoursTime)

NextHours == HoursStart \/ HoursStop \/ HoursTick

SpecHours == InitTime /\ [][NextHours]_vars

\* ----------------------------------------------------------------------
\* Specification SpecPauses: pause, resume and stop requests on a running
\* entry, under a clock that may be stepped back
\* ----------------------------------------------------------------------

\* u1 started entry 1 on p1 at time 0.
InitPauses ==
    /\ users = [u \in {"u1", "u3"} |->
                  IF u = "u1" THEN UserDoc("orgA", "user", FALSE)
                  ELSE UserDoc("orgB", "admin", TRUE)]
    /\ projects = [p \in {"p1"} |-> ProjectDoc("orgA", "u1")]
    /\ entries = [id \in {1} |-> NewEntry("u1", "p1", "orgA", 0)]
    /\ orgs = Empty /\ tasks = Empty /\ invitations = Empty
    /\ now = 0 /\ skew = 0 /\ procs = Empty
    /\ resp = [op |-> "init"]
    /\ reset_tokens = Empty /\ telemetry = {} /\ policies = {}

PausesStop == \E tok \in IssuedTokens, id \in {1, 2} : stop_time_tracking(tok, id)
PausesPause ==
    \E tok \in IssuedTokens, id \in {1, 2} :
        /\ pause_time_tracking(tok, id)
        /\ PausesWithin(entries', MaxPausePeriods)
PausesResume == \E tok \in IssuedTokens, id \in {1, 2} : resume_time_tracking(tok, id)
PausesTick == TickTo(MaxPauseTime)

NextPauses == PausesStop \/ PausesPause \/ PausesResume \/ PausesTick \/ ClockStepBack

SpecPauses == InitPauses /\ [][NextPauses]_vars

\* The in-flight pause of a stored entry: the seconds from the pause_time
\* of its open last period to end_time, when it was stopped while paused.
InFlightPause(e) ==
    IF e.is_paused /\ e.pause_periods # << >>
       /\ e.pause_periods[Len(e.pause_periods)].resume_time = NoTime
    THEN e.end_time - e.pause_periods[Len(e.pause_periods)].pause_time
    ELSE 0

\* C22 as stated: the stored fields of every stopped entry satisfy
\* duration = max(0, (end_time - start_time) - total_pause_duration).
C22_StoredFieldsGiveDuration ==
    \A id \in DOMAIN entries :
        LET e == entries[id] IN
        Stopped(e) => e.duration = Max(0, WallClock(e) - e.total_pause_duration)

\* C22: the stored fields of every stopped entry satisfy
\* duration = max(0, max(0, end_time - start_time) - (total_pause_duration
\* + in-flight pause)): stop counts the in-flight pause of a paused entry in
\* the duration, and leaves the stored total_pause_duration, is_paused and
\* pause_periods as they were.
C22_DurationCountsInFlightPause ==
    /\ [](\A id \in DOMAIN entries :
            LET e == entries[id] IN
            Stopped(e) =>
                e.duration = Max(0, Max(0, WallClock(e))
                                      - (e.total_pause_duration + InFlightPause(e))))
    /\ [][(resp'.op = "stop" /\ resp'.status = 200 /\ entries' # entries) =>
             LET e == entries[resp'.entry_id] IN
             /\ entries'[resp'.entry_id].total_pause_duration = e.total_pause_duration
             /\ entries'[resp'.entry_id].is_paused = e.is_paused
             /\ entries'[resp'.entry_id].pause_periods = e.pause_periods]_vars

\* An entry stopped while paused, one second into its second pause, with
\* one second of work and one second of closed pause stored.
C22_Witness ==
    /\ resp.op = "stop" /\ resp.status = 200
    /\ LET e == entries[resp.entry_id] IN
       /\ e.is_paused /\ Len(e.pause_periods) = 2
       /\ InFlightPause(e) > 0
       /\ e.total_pause_duration > 0
       /\ WallClock(e) - e.total_pause_duration > e.duration

\* C23: a stop answered 200 that stored duration d leaves every project
\* other than the entry's as it was; it adds d to the hours_tracked of the
\* entry's project (d / 3600 hours) when the update of the project went
\* through, and when that update failed the stop is answered 200 all the
\* same, with end_time and duration stored.
C23_StopAddsDurationToOwnProject ==
    [][(resp'.op = "stop" /\ resp'.status = 200 /\ entries' # entries) =>
          LET id == resp'.entry_id
              pid == entries[id].project_id
              d == entries'[id].duration
          IN  /\ entries'[id].end_time = now /\ d = StopDuration(entries[id], now)
              /\ DOMAIN projects' = DOMAIN projects
              /\ \A p \in DOMAIN projects \ {pid} : projects'[p] = projects[p]
              /\ \A f \in DOMAIN projects[pid] \ {"hours_tracked"} :
                    projects'[pid][f] = projects[pid][f]
              /\ projects'[pid].hours_tracked
                    = projects[pid].hours_tracked + (IF resp'.project_error THEN 0 ELSE d)]_vars

\* One stop added its duration to its project; the last stop stored a
\* positive duration although its update of the project failed.
C23_Witness ==
    /\ resp.op = "stop" /\ resp.status = 200 /\ resp.project_error
    /\ entries[resp.entry_id].duration > 0
    /\ projects[entries[resp.entry_id].project_id].hours_tracked = 0
    /\ \E id \in DOMAIN entries :
          /\ entries[id].duration > 0
          /\ projects[entries[id].project_id].hours_tracked = entries[id].duration

\* C30: in every entry at most one pause period has resume_time null, it
\* is the last one, and there is one exactly when is_paused is true;
\* total_pause_duration is the sum of resume_time - pause_time over the
\* periods whose resume_time is set.
C30_PausePeriodsWellFormed ==
    \A id \in DOMAIN entries :
        LET e == entries[id]
            open == {i \in DOMAIN e.pause_periods : e.pause_periods[i].resume_time = NoTime}
        IN  /\ Cardinality(open) <= 1
            /\ open \subseteq {Len(e.pause_periods)}
            /\ (open # {}) <=> e.is_paused
            /\ e.total_pause_duration = ClosedPauseTotal(e.pause_periods)

\* An entry stopped during its second pause, after a first pause of a
\* second.
C30_Witness ==
    \E id \in DOMAIN entries :
        LET e == entries[id] IN
        /\ Len(e.pause_periods) = 2 /\ e.is_paused /\ Stopped(e)
        /\ e.pause_periods[1].resume_time # NoTime
        /\ e.total_pause_duration > 0


\* ----------------------------------------------------------------------
\* Specification SpecStopRace: concurrent stop requests, one action per
\* database call of stop_time_tracking (the handler's await points)
\* ----------------------------------------------------------------------
Stoppers == 1..MaxStoppers

IdleStopper ==
    [pc |-> "idle", uid |-> None, id |-> 0, pid |-> None, end_time |-> NoTime,
     duration |-> NoTime, status |-> 0]

\* u1 started entry 1 on p1 at time 0.
InitStopRace ==
    /\ users = [u \in {"u1", "u3"} |->
                  IF u = "u1" THEN UserDoc("orgA", "user", FALSE)
                  ELSE UserDoc("orgB", "admin", TRUE)]
    /\ projects = [p \in {"p1", "p2"} |->
                     IF p = "p1" THEN ProjectDoc("orgA", "u1") ELSE ProjectDoc("orgB", "u3")]
    /\ entries = [id \in {1} |-> NewEntry("u1", "p1", "orgA", 0)]
    /\ orgs = Empty /\ tasks = Empty /\ invitations = Empty
    /\ now = 0 /\ skew = 0
    /\ procs = [p \in Stoppers |-> IdleStopper]
    /\ resp = [op |-> "init"]
    /\ reset_tokens = Empty /\ telemetry = {} /\ policies = {}

StopRaceFrame ==
    <<users, orgs, tasks, invitations, reset_tokens, telemetry, policies, skew, resp>>

\* Depends(get_current_user): the request enters the handler.
StopBegin(p) ==
    /\ procs[p].pc = "idle"
    /\ \E tok \in IssuedTokens, id \in {1, 2} :
          LET cu == get_current_user(tok) IN
          /\ cu.status = 200
          /\ procs' = [procs EXCEPT ![p] =
                 [IdleStopper EXCEPT !.pc = "lookup", !.uid = cu.principal, !.id = id]]
    /\ UNCHANGED <<entries, projects, now>>
    /\ UNCHANGED StopRaceFrame

\* await get_document("time_entries", {"id", "user_id"}); the checks on
\* entry_data and the computation of end_time and duration follow without
\* another await.
StopLookup(p) ==
    /\ procs[p].pc = "lookup"
    /\ LET id == procs[p].id IN
       procs' = IF ~OwnEntryQuery(id, procs[p].uid)
                THEN [procs EXCEPT ![p].pc = "done", ![p].status = 404]
                ELSE IF EntryStopped(entries[id])
                THEN [procs EXCEPT ![p].pc = "done", ![p].status = 400]
                ELSE [procs EXCEPT ![p].pc = "update_entry",
                                   ![p].pid = entries[id].project_id,
                                   ![p].end_time = now,
                                   ![p].duration = StopDuration(entries[id], now)]
    /\ UNCHANGED <<entries, projects, now>>
    /\ UNCHANGED StopRaceFrame

\* await update_document("time_entries", {"id"}, {end_time, duration})
StopUpdateEntry(p) ==
    /\ procs[p].pc = "update_entry"
    /\ entries' = [entries EXCEPT ![procs[p].id].end_time = procs[p].end_time,
                                  ![procs[p].id].duration = procs[p].duration]
    /\ procs' = [procs EXCEPT ![p].pc = "update_project"]
    /\ UNCHANGED <<projects, now>>
    /\ UNCHANGED StopRaceFrame

\* await update_document("projects", {"id"}, {"$inc": ...}), then the
\* read of the updated entry and the response
StopUpdateProject(p) ==
    /\ procs[p].pc = "update_project"
    /\ projects' = IncProjectHours(procs[p].pid, procs[p].duration)
    /\ procs' = [procs EXCEPT ![p].pc = "done", ![p].status = 200]
    /\ UNCHANGED <<entries, now>>
    /\ UNCHANGED StopRaceFrame

StopRaceTick ==
    /\ now < MaxStopRaceTime
    /\ now' = now + 1
    /\ UNCHANGED <<entries, projects, procs>>
    /\ UNCHANGED StopRaceFrame

NextStopRace ==
    \/ \E p \in Stoppers :
          \/ StopBegin(p)
          \/ StopLookup(p)
          \/ StopUpdateEntry(p)
          \/ StopUpdateProject(p)
    \/ StopRaceTick

SpecStopRace == InitStopRace /\ [][NextStopRace]_vars

RECURSIVE SumOfDurations(_)
\* The sum of the stored durations of the entries with ids in the set.
SumOfDurations(ids) ==
    IF ids = {} THEN 0
    ELSE LET id == CHOOSE i \in ids : TRUE IN
         entries[id].duration + SumOfDurations(ids \ {id})

\* The stopped entries of a project.
StoppedEntriesOf(pid) ==
    {id \in DOMAIN entries : entries[id].project_id = pid /\ Stopped(entries[id])}

\* No stop request is between two of its database calls.
NoStopInProgress == \A p \in Stoppers : procs[p].pc \in {"idle", "done"}

\* C29: under every interleaving of the requests' database calls, at most
\* one stop request for an entry is answered 200, and, when no stop is in
\* progress, each project's hours_tracked is the sum of the durations of
\* its stopped entries (duration / 3600 hours each).
C29_EntryFinalizedOnce ==
    /\ \A id \in DOMAIN entries :
          Cardinality({p \in Stoppers : procs[p].id = id /\ procs[p].status = 200}) <= 1
    /\ NoStopInProgress =>
          \A pid \in DOMAIN projects :
              projects[pid].hours_tracked = SumOfDurations(StoppedEntriesOf(pid))


\* ======================================================================
\* Membership count (routes/organizations.py register_organization,
\*  invite_user_to_organization; routes/auth.py accept_invitation;
\*  routes/users.py delete_user)
\* ======================================================================

FlowUserIds == {"u1", "u2", "u3", "u4", "u5", "u6", "u7"}

\* uuid4: an id no stored user has.
FreshMemberId == CHOOSE u \in FlowUserIds : u \notin DOMAIN users

register_outcome(domain, email, form) ==
    IF form = "no_terms"
    THEN Outcome(400, "Must accept terms and conditions and privacy policy")
    ELSE IF OrgsByDomain(Lower(domain)) # {}
    THEN Outcome(400, "Organization domain already exists. Please choose a different domain.")
    ELSE IF EmailRegistered(email)
    THEN Outcome(400, "Email address already registered. Please use a different email or login to your existing account.")
    ELSE IF form = "weak_password"
    THEN Outcome(400, "Password must be at least 8 characters long and contain uppercase, lowercase, and numbers")
    ELSE Outcome(200, "ok")

\* POST /organizations/register, its database calls taken together: the
\* organization (status trial), its owner, owner_id and current_users = 1,
\* the security policy.
register_organization(domain, email, form) ==
    LET out == register_outcome(domain, email, form)
        o == FreshOrgId
        u == FreshMemberId
    IN
    /\ IF out.status = 200
       THEN /\ orgs' = [x \in DOMAIN orgs \cup {o} |->
                          IF x \in DOMAIN orgs THEN orgs[x]
                          ELSE [RegisteredOrg(Lower(domain), email)
                                  EXCEPT !.owner_id = u, !.current_users = 1]]
            /\ users' = [x \in DOMAIN users \cup {u} |->
                           IF x \in DOMAIN users THEN users[x] ELSE OwnerUser(email, o)]
            /\ policies' = policies \cup {[organization_id |-> o]}
       ELSE UNCHANGED <<orgs, users, policies>>
    /\ resp' = [op |-> "register_organization", id |-> IF out.status = 200 THEN o ELSE None,
                status |-> out.status, detail |-> out.detail]
    /\ UNCHANGED <<projects, tasks, entries, invitations, reset_tokens, telemetry, now, skew, procs>>

accept_outcome(token) ==
    IF token \notin DOMAIN invitations
    THEN Outcome(404, "Invalid invitation token")
    ELSE IF now > invitations[token].expires_at
    THEN Outcome(400, "Invitation has expired")
    ELSE IF invitations[token].accepted
    THEN Outcome(400, "Invitation has already been accepted")
    ELSE IF UsersByEmail(invitations[token].email) # {}
    THEN Outcome(400, "User with this email already exists in another organization")
    ELSE IF invitations[token].organization_id \notin DOMAIN orgs
            \/ orgs[invitations[token].organization_id].status # "active"
    THEN Outcome(400, "Organization is not available for new users")
    ELSE Outcome(200, "ok")

\* POST /auth/accept-invite, its database calls taken together: the user,
\* $inc current_users, accepted = True.
accept_invitation(token) ==
    LET out == accept_outcome(token) IN
    /\ IF out.status = 200
       THEN LET inv == invitations[token]
                u == FreshMemberId
            IN  /\ users' = [x \in DOMAIN users \cup {u} |->
                               IF x \in DOMAIN users THEN users[x]
                               ELSE InvitedUser(inv.email, inv.role, inv.organization_id)]
                /\ orgs' = [orgs EXCEPT ![inv.organization_id].current_users = @ + 1]
                /\ invitations' = [invitations EXCEPT ![token].accepted = TRUE]
       ELSE UNCHANGED <<users, orgs, invitations>>
    /\ resp' = [op |-> "accept_invitation", id |-> token,
                status |-> out.status, detail |-> out.detail]
    /\ UNCHANGED <<projects, tasks, entries, policies, reset_tokens, telemetry, now, skew, procs>>

\* ----------------------------------------------------------------------
\* Specification SpecOrgFlow: an active organization one short of its
\* user limit, next to the organizations that register
\* ----------------------------------------------------------------------
InitOrgFlow ==
    /\ orgs = [o \in {"orgA"} |->
                 OrgDoc("active", 4) @@ [domain |-> "alpha", email |-> "e1", owner_id |-> "u1"]]
    /\ users = [u \in {"u1", "u2", "u3", "u4"} |->
                  IF u = "u1" THEN OwnerUser("e1", "orgA")
                  ELSE InvitedUser(IF u = "u2" THEN "e2" ELSE IF u = "u3" THEN "e3" ELSE "e4",
                                   "user", "orgA")]
    /\ policies = {[organization_id |-> "orgA"]}
    /\ invitations = Empty /\ projects = Empty /\ tasks = Empty /\ entries = Empty
    /\ now = 0 /\ skew = 0 /\ procs = Empty
    /\ resp = [op |-> "init"]
    /\ reset_tokens = Empty /\ telemetry = {}

FlowRegister ==
    \E domain \in {"acme", "alpha"}, email \in {"e5", "e1"}, form \in {"ok", "no_terms"} :
        /\ register_organization(domain, email, form)
        /\ Cardinality(DOMAIN orgs') <= MaxFlowOrgs

FlowInvite ==
    \E tok \in IssuedTokens, email \in {"e6", "e7"} :
        /\ invite_user_to_organization(tok, email, "user")
        /\ Cardinality(DOMAIN invitations') <= MaxFlowInvitations

FlowAccept == \E token \in MemberInviteTokens : accept_invitation(token)

FlowDeleteUser ==
    \E tok \in IssuedTokens, uid \in {"u1", "u2", "u5"} : delete_user(tok, uid)

NextOrgFlow == FlowRegister \/ FlowInvite \/ FlowAccept \/ FlowDeleteUser

SpecOrgFlow == InitOrgFlow /\ [][NextOrgFlow]_vars

\* The organization stored before any registration of the run.
SeededOrgs == {"orgA"}

\* The user documents of an organization.
MembersOf(o) == {u \in DOMAIN users : users[u].organization_id = o}

\* C26: each organization's current_users is the number of user documents
\* with its organization_id, in every state between requests reached by
\* register_organization, accept_invitation and delete_user.
C26_CurrentUsersCountsMembers ==
    \A o \in DOMAIN orgs : orgs[o].current_users = Cardinality(MembersOf(o))

\* C27: current_users never exceeds max_users, also when several
\* invitations issued below the limit are all accepted afterwards.
C27_CurrentUsersWithinLimit ==
    \A o \in DOMAIN orgs : orgs[o].current_users <= orgs[o].max_users

\* C28: an invitation of an organization that register_organization
\* created, unexpired and unaccepted, for an email no user has, is accepted
\* when its token is presented: accept_invitation answers 200 and creates
\* the member in that organization.
C28_RegisteredOrgInvitationAccepted ==
    [][(/\ resp'.op = "accept_invitation"
        /\ resp'.id \in DOMAIN invitations
        /\ LET inv == invitations[resp'.id] IN
           /\ ~inv.accepted /\ now <= inv.expires_at
           /\ UsersByEmail(inv.email) = {}
           /\ inv.organization_id \in DOMAIN orgs \ SeededOrgs
           /\ orgs[inv.organization_id].owner_id \in DOMAIN users)
          => /\ resp'.status = 200
             /\ \E u \in DOMAIN users' \ DOMAIN users :
                   /\ users'[u].email = invitations[resp'.id].email
                   /\ users'[u].organization_id = invitations[resp'.id].organization_id]_vars

=============================================================================
